---- MODULE Spec2Model ----
(***************************************************************************)
(* Camera acquisition and fallback state machines of robo-med-pilot-droid. *)
(*                                                                         *)
(*   SpecFeed   src/src/components/CameraFeed.tsx  (remote ladder and the  *)
(*              component's own device-camera effects)                     *)
(*   SpecFrame  src/unnamed/part_006, the revision of CameraFeed with the  *)
(*              iframe / img fallback and the load timeout                 *)
(*   SpecDetection  requestCameraPermission and identifyCameras of         *)
(*              src/unnamed/part_000, with initializeCamera of the hook    *)
(*                                                                         *)
(* React is modelled as its event loop runs it: one action is one event    *)
(* handler or one promise continuation together with the re-render and the *)
(* effect cleanups / effects that the state change triggers.  A stream is  *)
(* an identifier; liveTracks is the set of streams whose tracks have not   *)
(* been stopped.                                                           *)
(***************************************************************************)
EXTENDS Integers, Sequences, FiniteSets, TLC

\* ------------------------------------------------------------------------
\* Bounds of the model
\* ------------------------------------------------------------------------
MaxStreams == 2     \* MediaStream objects in use at the same time
MaxPending == 1     \* promises of CameraFeed pending at the same time
MaxAttempts == 4    \* largest retry counter followed
MaxCalls == 2       \* calls of useCamera in flight at the same time
MaxParts == 3       \* parts of the path of a camera URL
MaxDevices == 3     \* video inputs that enumerateDevices lists
MaxProbes == 3      \* requests of the <img> counted in one mode
MaxMedicines == 2   \* entries of the medicine schedule
MaxMinutes == 3     \* minutes of wall-clock time that are followed
TicksPerCheck == 3  \* clock ticks that one check interval is divided into

\* ------------------------------------------------------------------------
\* Program constants
\* ------------------------------------------------------------------------
maxRetries == 3

modes == <<"direct", "mjpeg", "img", "webcam">>
VideoMode == {"direct", "mjpeg", "img", "webcam"}
NoStream == 0
NoError == "none"
Urls == {"", "192.168.1.50:8080", "cam.local"}
DeviceLists == {<<>>, <<"d1">>, <<"d1", "d2">>}

\* the empty string, split at '/'
EmptyUrl == <<"">>

\* requestCameraPermission is not running and has not returned
NoPermissionCall == [pc |-> "idle", caller |-> "none", success |-> FALSE, devices |-> <<>>,
                     error |-> "none"]

\* identifyCameras was not called
NotIdentified == [called |-> FALSE, devices |-> <<>>,
                  frontCamera |-> [deviceId |-> "", label |-> ""],
                  backCamera |-> [deviceId |-> "", label |-> ""], otherCameras |-> <<>>]

\* no <img> is rendered
NoSrc == [base |-> "", endpoint |-> "", proxied |-> FALSE, token |-> FALSE]

\* formatCameraUrl was not called
NoUrlResult == [called |-> FALSE, once |-> <<"">>, twice |-> <<"">>]

\* no timer is armed
NoTimeout == [armed |-> FALSE, loading |-> FALSE, fallbackMode |-> "iframe", imgError |-> FALSE]

VARIABLES
    \* ---- CameraFeed.tsx ----
    cameraUrl,          \* prop
    loading,
    feedError,          \* error?.type, or NoError
    useCorsBypass,
    videoMode,
    retryAttempts,
    usingDeviceCamera,
    feedDevices,
    selectedDeviceId,
    feedStreamRef,      \* streamRef.current
    feedVideo,          \* the <video> element: srcObject, onloadedmetadata, event state
    getDevicesAwait,    \* getDevices() calls: awaiting getUserMedia / enumerateDevices
    startCameraAwait,   \* startCamera() calls awaiting getUserMedia
    playAwait,          \* play() promises not yet settled
    onErrorCalls,       \* calls of the onError prop made by the last handler
    \* ---- useCamera (use-camera.tsx and its revision with mountedRef) ----
    env,                \* platform and hook options, fixed at mount
    devices,
    currentDevice,
    isLoading,
    isActive,
    hasPermission,
    error,
    cameraPosition,
    hasFrontAndBackCamera,
    streamRef,          \* streamRef.current
    mountedRef,         \* the hook's component is mounted
    video,              \* videoRef.current: srcObject and the call owning its handlers
    calls,              \* the asynchronous calls in flight
    playing,            \* calls whose play() promise is not yet settled
    timers,             \* calls whose readiness timeout is armed
    lastStream,         \* the stream of the call the last event belongs to
    isInitializing,     \* NativeCamera: isInitializing
    awaited,            \* NativeCamera: the startCamera call its initializeCamera awaits
    startReturned,      \* NativeCamera: that call has returned, the await has not resumed
    autoInit,           \* NativeCamera: the auto-init effect called initializeCamera() last step
    \* ---- CameraFeed, the revision with the load timeout (unnamed/part_006) ----
    frameUrl,           \* the cameraUrl prop, split at '/'
    frameLoading,       \* loading
    frameError,         \* error
    imgError,
    fallbackMode,
    timeout,            \* the timer of the load-timeout effect and what its callback closed over
    onUrlChange,        \* the parent passes the onUrlChange prop
    \* ---- cameraDetection (unnamed/part_000) and cameraUtils.ts called directly ----
    cameraSupported,    \* isCameraSupported()
    permission,         \* the requestCameraPermission call in flight, and its result
    identified,         \* what identifyCameras returned for the enumerated devices
    urlArg,             \* the argument of formatCameraUrl
    urlResult,          \* what formatCameraUrl returned for it, and for its own result
    \* ---- the <img> of CameraFeed.tsx and the requests it makes ----
    clockAdvanced,      \* Date.now() has changed since the last render
    imgSrc,             \* the src the <img> was last rendered with
    probes,             \* requests the <img> made since the mode was entered
    \* ---- JoystickControl.tsx ----
    active,             \* useState: a drag is in progress
    lastDirection,      \* useState: the direction sent last
    knob,               \* knobRef.current.style.transform
    listeners,          \* the render whose handlers are registered on the DOM
    lastSent,           \* observation: the last argument of onMove
    emitted,            \* observation: the last event called onMove
    dragSent,           \* observation: the current or last drag sent a movement
    \* ---- pages/Index.tsx (medicine schedule) ----
    scheduledMedicines,
    now,                \* the wall clock, in ticks since midnight
    remaining,          \* ticks until the interval calls back
    notified,           \* observation: showNotification calls in this minute
    opened,             \* observation: sendServoCommand(drawer, 'open') calls
    \* ---- platform ----
    liveTracks,         \* streams with live tracks
    \* ---- observation ----
    lastEvent,          \* the handler or continuation that ran last
    unattended          \* no user action and no probe success so far

feedVars == <<cameraUrl, loading, feedError, useCorsBypass, videoMode, retryAttempts,
              usingDeviceCamera, feedDevices, selectedDeviceId, feedStreamRef, feedVideo,
              getDevicesAwait, startCameraAwait, playAwait, onErrorCalls>>
hookVars == <<env, devices, currentDevice, isLoading, isActive, hasPermission, error,
              cameraPosition, hasFrontAndBackCamera, streamRef, mountedRef, video, calls,
              playing, timers, lastStream, isInitializing, awaited, startReturned,
              autoInit>>
frameVars == <<frameUrl, frameLoading, frameError, imgError, fallbackMode, timeout,
               onUrlChange>>
utilVars == <<cameraSupported, permission, identified, urlArg, urlResult>>
probeVars == <<clockAdvanced, imgSrc, probes>>
joystickVars == <<active, lastDirection, knob, listeners, lastSent, emitted, dragSent>>
scheduleVars == <<scheduledMedicines, now, remaining, notified, opened>>
pageVars == <<joystickVars, scheduleVars>>
platformVars == <<liveTracks>>
vars == <<feedVars, hookVars, frameVars, utilVars, probeVars, pageVars, platformVars,
          lastEvent, unattended>>

\* ------------------------------------------------------------------------
\* Platform: MediaStream objects
\* ------------------------------------------------------------------------
StreamIds == 1..MaxStreams

HasFresh(used) == StreamIds \ used # {}

\* the stream object a resolving getUserMedia returns
Fresh(used) == CHOOSE id \in StreamIds \ used : \A other \in StreamIds \ used : id <= other

\* ------------------------------------------------------------------------
\* CameraFeed.tsx
\* ------------------------------------------------------------------------
ZeroAttempts == [m \in VideoMode |-> 0]

NoVideo == [srcObject |-> NoStream, onloadedmetadata |-> FALSE, fired |-> FALSE]

indexOf(m) == CHOOSE i \in 1..Len(modes) : modes[i] = m

\* a ladder that skips a mode: modes[(currentIndex + 2) % modes.length]
nextModeOfSkipping(m) == modes[((indexOf(m) + 1) % Len(modes)) + 1]

\* modes[(currentIndex + 1) % modes.length]
nextModeOf(m) == modes[(indexOf(m) % Len(modes)) + 1]

\* early return of the render: "No camera URL configured"
NoUrlScreen(url, udc) == url = "" /\ ~udc

\* <video ref={videoRef}> is rendered
VideoRendered(er, vm, url, udc) == ~NoUrlScreen(url, udc) /\ er = NoError /\ vm = "webcam"

\* <img onLoad onError> is rendered
ImgRendered(er, vm, url, udc) == ~NoUrlScreen(url, udc) /\ er = NoError /\ vm # "webcam"

\* The component state a render reads and the refs its effects touch.
FeedState == [ld |-> loading, er |-> feedError, vm |-> videoMode, ra |-> retryAttempts,
              udc |-> usingDeviceCamera, sel |-> selectedDeviceId, url |-> cameraUrl,
              ref |-> feedStreamRef, lv |-> liveTracks,
              gum |-> getDevicesAwait.gum, enm |-> getDevicesAwait.enum,
              sc |-> startCameraAwait, oe |-> 0]

\* One commit: the cleanups of the effects whose dependencies changed since the
\* render with dependencies d, then those effects, in declaration order.
Round(d, s) ==
    LET e1Changed == s.url # d.url \/ s.udc # d.udc
        e2Changed == s.vm # d.vm
        e3Changed == s.udc # d.udc \/ s.vm # d.vm \/ s.sel # d.sel
        \* cleanup of the getDevices effect: stops, does not clear
        lv1 == IF e2Changed /\ s.ref # NoStream THEN s.lv \ {s.ref} ELSE s.lv
        \* cleanup of the startCamera effect: reads the videoMode and
        \* usingDeviceCamera of the render that installed it
        c3 == e3Changed /\ s.ref # NoStream /\ (d.vm # "webcam" \/ ~d.udc)
        lv2 == IF c3 THEN lv1 \ {s.ref} ELSE lv1
        ref2 == IF c3 THEN NoStream ELSE s.ref
        \* effect 1: reset when the URL or the source changed
        reset == e1Changed /\ ~s.udc
        \* effect 2: getDevices()
        enumerate == e2Changed /\ s.vm = "webcam"
        \* effect 3: startCamera() up to its await
        start == e3Changed /\ s.udc /\ s.vm = "webcam" /\ s.sel # ""
        lv3 == IF start /\ ref2 # NoStream THEN lv2 \ {ref2} ELSE lv2
    IN [s EXCEPT !.ld = IF reset \/ start THEN TRUE ELSE s.ld,
                 !.er = IF reset THEN NoError ELSE s.er,
                 !.ra = IF reset THEN ZeroAttempts ELSE s.ra,
                 !.vm = IF reset THEN "direct" ELSE s.vm,
                 !.ref = ref2,
                 !.lv = lv3,
                 !.gum = IF enumerate THEN s.gum + 1 ELSE s.gum,
                 !.sc = IF start THEN s.sc + 1 ELSE s.sc]

\* A handler has produced state s: render, run the effects, render again for
\* what the effects set, and leave the result in the variables.
Commit(s, element) ==
    \E r1 \in {Round(FeedState, s)} :
    \E r2 \in {Round(s, r1)} :
       /\ r2.gum + r2.enm + r2.sc + playAwait <= MaxPending
       /\ loading' = r2.ld
       /\ feedError' = r2.er
       /\ videoMode' = r2.vm
       /\ retryAttempts' = r2.ra
       /\ usingDeviceCamera' = r2.udc
       /\ selectedDeviceId' = r2.sel
       /\ cameraUrl' = r2.url
       /\ feedStreamRef' = r2.ref
       /\ liveTracks' = r2.lv
       /\ getDevicesAwait' = [gum |-> r2.gum, enum |-> r2.enm]
       /\ startCameraAwait' = r2.sc
       /\ onErrorCalls' = r2.oe
       /\ feedVideo' = IF /\ VideoRendered(feedError, videoMode, cameraUrl, usingDeviceCamera)
                          /\ VideoRendered(s.er, s.vm, s.url, s.udc)
                          /\ VideoRendered(r1.er, r1.vm, r1.url, r1.udc)
                          /\ VideoRendered(r2.er, r2.vm, r2.url, r2.udc)
                       THEN element ELSE NoVideo

\* switchToNextMode, on state s
switchToNextMode(s) ==
    LET nextMode == nextModeOf(s.vm)
    IN IF \A m \in VideoMode : s.ra[m] >= maxRetries
       THEN [s EXCEPT !.er = "connection", !.ld = FALSE]
       ELSE [s EXCEPT !.ra = [s.ra EXCEPT ![nextMode] = s.ra[nextMode] + 1],
                      !.vm = nextMode,
                      !.udc = (nextMode = "webcam")]

\* handleError, on state s
handleError(s) ==
    IF s.ra[s.vm] < maxRetries
    THEN switchToNextMode(s)
    ELSE [s EXCEPT !.er = "error", !.ld = FALSE, !.oe = s.oe + 1]

\* <img onError>
ProbeError ==
    /\ ImgRendered(feedError, videoMode, cameraUrl, usingDeviceCamera)
    /\ \E s \in {handleError(FeedState)} :
          /\ \A m \in VideoMode : s.ra[m] <= MaxAttempts
          /\ Commit(s, feedVideo)
    /\ lastEvent' = "ProbeError"
    /\ UNCHANGED <<useCorsBypass, feedDevices, playAwait, unattended, hookVars, frameVars, utilVars, pageVars>>

\* <img onLoad>: handleLoad
ProbeLoad ==
    /\ ImgRendered(feedError, videoMode, cameraUrl, usingDeviceCamera)
    /\ Commit([FeedState EXCEPT !.ld = FALSE, !.er = NoError], feedVideo)
    /\ lastEvent' = "ProbeLoad"
    /\ unattended' = FALSE
    /\ UNCHANGED <<useCorsBypass, feedDevices, playAwait, hookVars, frameVars, utilVars, pageVars>>

\* toggleCameraSource: the source button of every screen
ToggleCameraSource ==
    /\ Commit([FeedState EXCEPT !.udc = ~usingDeviceCamera, !.ld = TRUE, !.er = NoError,
                                !.vm = IF ~usingDeviceCamera THEN "webcam" ELSE "direct"],
              feedVideo)
    /\ lastEvent' = "ToggleCameraSource"
    /\ unattended' = FALSE
    /\ UNCHANGED <<useCorsBypass, feedDevices, playAwait, hookVars, frameVars, utilVars, pageVars>>

\* the error panel is rendered
ErrorPanel == ~NoUrlScreen(cameraUrl, usingDeviceCamera) /\ feedError # NoError

\* the control bar is rendered
ControlBar == ~NoUrlScreen(cameraUrl, usingDeviceCamera) /\ feedError = NoError

\* a Retry that always restarts the remote ladder
ReloadCameraToDirect ==
    /\ ErrorPanel
    /\ Commit([FeedState EXCEPT !.ld = TRUE, !.er = NoError, !.ra = ZeroAttempts,
                                !.vm = "direct"],
              feedVideo)
    /\ lastEvent' = "ReloadCamera"
    /\ unattended' = FALSE
    /\ UNCHANGED <<useCorsBypass, feedDevices, playAwait, hookVars, frameVars, utilVars, pageVars>>

\* reloadCamera: "Retry Connection"
ReloadCamera ==
    /\ ErrorPanel
    /\ Commit([FeedState EXCEPT !.ld = TRUE, !.er = NoError, !.ra = ZeroAttempts,
                                !.vm = IF usingDeviceCamera THEN "webcam" ELSE "direct"],
              feedVideo)
    /\ lastEvent' = "ReloadCamera"
    /\ unattended' = FALSE
    /\ UNCHANGED <<useCorsBypass, feedDevices, playAwait, hookVars, frameVars, utilVars, pageVars>>

\* a switch that restarts the probe and keeps the counters
CorsBypassToggleKeepsCounters ==
    /\ ErrorPanel
    /\ ~usingDeviceCamera
    /\ useCorsBypass' = ~useCorsBypass
    /\ Commit([FeedState EXCEPT !.er = NoError, !.ld = TRUE, !.vm = "direct"], feedVideo)
    /\ lastEvent' = "CorsBypassToggle"
    /\ unattended' = FALSE
    /\ UNCHANGED <<feedDevices, playAwait, hookVars, frameVars, utilVars, pageVars>>

\* onCheckedChange of the "Try CORS bypass" switch
CorsBypassToggle ==
    /\ ErrorPanel
    /\ ~usingDeviceCamera
    /\ useCorsBypass' = ~useCorsBypass
    /\ Commit([FeedState EXCEPT !.er = NoError, !.ld = TRUE, !.vm = "direct",
                                !.ra = ZeroAttempts],
              feedVideo)
    /\ lastEvent' = "CorsBypassToggle"
    /\ unattended' = FALSE
    /\ UNCHANGED <<feedDevices, playAwait, hookVars, frameVars, utilVars, pageVars>>

\* onClick of the "Mode:" button
ModeButtonNext(vm) ==
    IF vm = "direct" THEN "mjpeg" ELSE IF vm = "mjpeg" THEN "img" ELSE "direct"

ModeButton ==
    /\ ControlBar
    /\ ~usingDeviceCamera
    /\ LET nextMode == ModeButtonNext(videoMode)
       IN Commit([FeedState EXCEPT !.vm = nextMode,
                                   !.ra = [retryAttempts EXCEPT ![nextMode] = 0]],
                 feedVideo)
    /\ lastEvent' = "ModeButton"
    /\ unattended' = FALSE
    /\ UNCHANGED <<useCorsBypass, feedDevices, playAwait, hookVars, frameVars, utilVars, pageVars>>

\* handleDeviceChange: the device <Select>
HandleDeviceChange ==
    /\ ControlBar
    /\ usingDeviceCamera
    /\ \E i \in 1..Len(feedDevices) :
          /\ feedDevices[i] # selectedDeviceId
          /\ Commit([FeedState EXCEPT !.sel = feedDevices[i], !.ld = TRUE], feedVideo)
    /\ lastEvent' = "HandleDeviceChange"
    /\ unattended' = FALSE
    /\ UNCHANGED <<useCorsBypass, feedDevices, playAwait, hookVars, frameVars, utilVars, pageVars>>

\* another cameraUrl without the reset effect of lines 65-77
SetCameraUrlNoReset ==
    /\ \E u \in Urls \ {cameraUrl} :
          /\ cameraUrl' = u
          /\ UNCHANGED <<loading, feedError, videoMode, retryAttempts, usingDeviceCamera,
                         selectedDeviceId, feedStreamRef, feedVideo, getDevicesAwait,
                         startCameraAwait, onErrorCalls, liveTracks>>
    /\ lastEvent' = "SetCameraUrl"
    /\ unattended' = FALSE
    /\ UNCHANGED <<useCorsBypass, feedDevices, playAwait, hookVars, frameVars, utilVars, pageVars>>

\* the parent passes another cameraUrl
SetCameraUrl ==
    /\ \E u \in Urls \ {cameraUrl} : Commit([FeedState EXCEPT !.url = u], feedVideo)
    /\ lastEvent' = "SetCameraUrl"
    /\ unattended' = FALSE
    /\ UNCHANGED <<useCorsBypass, feedDevices, playAwait, hookVars, frameVars, utilVars, pageVars>>

\* Stream identifiers the component can still tell apart.
FeedStreams == liveTracks \cup {feedStreamRef, feedVideo.srcObject}

\* getDevices: getUserMedia({video: true}) resolves; the stream is dropped
GetDevicesGranted ==
    /\ getDevicesAwait.gum > 0
    /\ HasFresh(FeedStreams)
    /\ liveTracks' = liveTracks \cup {Fresh(FeedStreams)}
    /\ getDevicesAwait' = [gum |-> getDevicesAwait.gum - 1, enum |-> getDevicesAwait.enum + 1]
    /\ lastEvent' = "GetDevicesGranted"
    /\ onErrorCalls' = 0
    /\ UNCHANGED <<cameraUrl, loading, feedError, useCorsBypass, videoMode, retryAttempts,
                   usingDeviceCamera, feedDevices, selectedDeviceId, feedStreamRef, feedVideo,
                   startCameraAwait, playAwait, unattended, hookVars, frameVars, utilVars, pageVars>>

\* getDevices: getUserMedia rejects
GetDevicesDenied ==
    /\ getDevicesAwait.gum > 0
    /\ Commit([FeedState EXCEPT !.er = "permission", !.gum = getDevicesAwait.gum - 1],
              feedVideo)
    /\ lastEvent' = "GetDevicesDenied"
    /\ UNCHANGED <<useCorsBypass, feedDevices, playAwait, unattended, hookVars, frameVars, utilVars, pageVars>>

\* getDevices: enumerateDevices resolves with the video inputs
GetDevicesEnumerated ==
    /\ getDevicesAwait.enum > 0
    /\ \E videoDevices \in DeviceLists :
          /\ feedDevices' = videoDevices
          /\ Commit([FeedState EXCEPT !.sel = IF Len(videoDevices) > 0 THEN videoDevices[1]
                                                                     ELSE selectedDeviceId,
                                      !.enm = getDevicesAwait.enum - 1],
                    feedVideo)
    /\ lastEvent' = "GetDevicesEnumerated"
    /\ UNCHANGED <<useCorsBypass, playAwait, unattended, hookVars, frameVars, utilVars, pageVars>>

\* startCamera: getUserMedia resolves
StartCameraGranted ==
    /\ startCameraAwait > 0
    /\ HasFresh(FeedStreams)
    /\ startCameraAwait' = startCameraAwait - 1
    /\ \E stream \in {Fresh(FeedStreams)} :
          /\ feedStreamRef' = stream
          /\ liveTracks' = liveTracks \cup {stream}
          /\ feedVideo' = IF VideoRendered(feedError, videoMode, cameraUrl, usingDeviceCamera)
                          THEN [srcObject |-> stream, onloadedmetadata |-> TRUE,
                                fired |-> FALSE]
                          ELSE feedVideo
    /\ lastEvent' = "StartCameraGranted"
    /\ onErrorCalls' = 0
    /\ UNCHANGED <<cameraUrl, loading, feedError, useCorsBypass, videoMode, retryAttempts,
                   usingDeviceCamera, feedDevices, selectedDeviceId, getDevicesAwait,
                   playAwait, unattended, hookVars, frameVars, utilVars, pageVars>>

\* startCamera: getUserMedia rejects
StartCameraDenied ==
    /\ startCameraAwait > 0
    /\ Commit([FeedState EXCEPT !.er = "access", !.ld = FALSE, !.sc = startCameraAwait - 1],
              feedVideo)
    /\ lastEvent' = "StartCameraDenied"
    /\ UNCHANGED <<useCorsBypass, feedDevices, playAwait, unattended, hookVars, frameVars, utilVars, pageVars>>

\* videoRef.current.onloadedmetadata: play()
LoadedMetadata ==
    /\ feedVideo.onloadedmetadata
    /\ ~feedVideo.fired
    /\ feedVideo.srcObject \in liveTracks
    /\ getDevicesAwait.gum + getDevicesAwait.enum + startCameraAwait + playAwait < MaxPending
    /\ feedVideo' = [feedVideo EXCEPT !.fired = TRUE]
    /\ playAwait' = playAwait + 1
    /\ lastEvent' = "LoadedMetadata"
    /\ onErrorCalls' = 0
    /\ UNCHANGED <<cameraUrl, loading, feedError, useCorsBypass, videoMode, retryAttempts,
                   usingDeviceCamera, feedDevices, selectedDeviceId, feedStreamRef,
                   getDevicesAwait, startCameraAwait, liveTracks, unattended, hookVars, frameVars, utilVars, pageVars>>

\* play().then
PlayResolved ==
    /\ playAwait > 0
    /\ playAwait' = playAwait - 1
    /\ Commit([FeedState EXCEPT !.ld = FALSE, !.er = NoError], feedVideo)
    /\ lastEvent' = "PlayResolved"
    /\ UNCHANGED <<useCorsBypass, feedDevices, unattended, hookVars, frameVars, utilVars, pageVars>>

\* play().catch
PlayRejected ==
    /\ playAwait > 0
    /\ playAwait' = playAwait - 1
    /\ Commit([FeedState EXCEPT !.er = "playback", !.ld = FALSE], feedVideo)
    /\ lastEvent' = "PlayRejected"
    /\ UNCHANGED <<useCorsBypass, feedDevices, unattended, hookVars, frameVars, utilVars, pageVars>>

\* ------------------------------------------------------------------------
\* cameraDetection (src/unnamed/part_000)
\* ------------------------------------------------------------------------
NoDevice == [deviceId |-> "", label |-> ""]
FrontCam == [deviceId |-> "d1", label |-> "front camera"]
BackCam == [deviceId |-> "d2", label |-> "back camera"]
PlainCam == [deviceId |-> "d3", label |-> "usb video"]
RearCam == [deviceId |-> "d4", label |-> "Rear Camera"]
FaceCam == [deviceId |-> "d5", label |-> "FaceTime HD Camera (external)"]
WebCam == [deviceId |-> "d6", label |-> "HD Webcam"]
EnvDeviceLists == {<<>>, <<PlainCam>>, <<FrontCam, BackCam>>}

\* the video inputs a platform may have, and the lists enumerateDevices returns
CameraPool == {FrontCam, BackCam, PlainCam, RearCam, FaceCam, WebCam}
DetectionDeviceLists ==
    {list \in UNION {[1..n -> CameraPool] : n \in 0..MaxDevices} :
        \A i, j \in 1..Len(list) : i # j => list[i] # list[j]}

\* the keywords of identifyCameras that label.toLowerCase() contains
LabelKeywords(label) ==
    CASE label = "front camera" -> {"front"}
      [] label = "back camera" -> {"back"}
      [] label = "Rear Camera" -> {"rear"}
      [] label = "FaceTime HD Camera (external)" -> {"face", "external"}
      [] OTHER -> {}

\* label.toLowerCase().includes(keyword), for the labels of the model
includes(label, keyword) == keyword \in LabelKeywords(label)

IsFrontLabel(label) ==
    \/ includes(label, "front") \/ includes(label, "user")
    \/ includes(label, "selfie") \/ includes(label, "face")

IsBackLabel(label) ==
    \/ includes(label, "back") \/ includes(label, "rear")
    \/ includes(label, "environment") \/ includes(label, "external")

LastOf(devs, idx) ==
    IF idx = {} THEN NoDevice
    ELSE devs[CHOOSE i \in idx : \A j \in idx : j <= i]

\* identifyCameras with the positional guess of a phone made for a single
\* device too
identifyCamerasGuessingBack(devs) ==
    LET frontIdx == {i \in 1..Len(devs) : IsFrontLabel(devs[i].label)}
        backIdx == {i \in 1..Len(devs) :
                      ~IsFrontLabel(devs[i].label) /\ IsBackLabel(devs[i].label)}
        others == SelectSeq(devs, LAMBDA d : ~IsFrontLabel(d.label) /\ ~IsBackLabel(d.label))
        guess == frontIdx = {} /\ backIdx = {} /\ Len(devs) > 0
        mobileGuess == guess /\ env.deviceType = "mobile"
    IN [frontCamera |-> IF mobileGuess THEN (IF Len(devs) > 1 THEN devs[2] ELSE NoDevice)
                        ELSE IF guess THEN devs[1]
                        ELSE LastOf(devs, frontIdx),
        backCamera |-> IF mobileGuess THEN devs[1]
                       ELSE IF guess THEN (IF Len(devs) > 1 THEN devs[2] ELSE NoDevice)
                       ELSE LastOf(devs, backIdx),
        otherCameras |-> others]

identifyCameras(devs) ==
    LET frontIdx == {i \in 1..Len(devs) : IsFrontLabel(devs[i].label)}
        backIdx == {i \in 1..Len(devs) :
                      ~IsFrontLabel(devs[i].label) /\ IsBackLabel(devs[i].label)}
        others == SelectSeq(devs, LAMBDA d : ~IsFrontLabel(d.label) /\ ~IsBackLabel(d.label))
        guess == frontIdx = {} /\ backIdx = {} /\ Len(devs) > 0
        mobileGuess == guess /\ env.deviceType = "mobile" /\ Len(devs) > 1
    IN [frontCamera |-> IF mobileGuess THEN devs[2]
                        ELSE IF guess THEN devs[1]
                        ELSE LastOf(devs, frontIdx),
        backCamera |-> IF mobileGuess THEN devs[1]
                       ELSE IF guess THEN (IF Len(devs) > 1 THEN devs[2] ELSE NoDevice)
                       ELSE LastOf(devs, backIdx),
        otherCameras |-> others]

\* ------------------------------------------------------------------------
\* useCamera, src/src/hooks/use-camera.tsx
\* ------------------------------------------------------------------------
CallIds == 1..MaxCalls

\* what a callback captured from the render that created it
NoClosure == [hp |-> FALSE, dv |-> <<>>, cd |-> NoDevice, cp |-> "front"]

\* hadStream observes that stopCurrentStream of the call found a stream
IdleCall == [pc |-> "idle", phase |-> "none", c |-> NoClosure, dev |-> NoDevice,
             stream |-> NoStream, hadStream |-> FALSE]

\* a call that has returned while its handlers can still run
Returned(dev, stream) == [IdleCall EXCEPT !.pc = "returned", !.dev = dev, !.stream = stream]

NoHookVideo == [srcObject |-> NoStream, owner |-> 0]

HookState == [dv |-> devices, cd |-> currentDevice, ld |-> isLoading, ac |-> isActive,
              hp |-> hasPermission, er |-> error, cp |-> cameraPosition,
              fb |-> hasFrontAndBackCamera, ref |-> streamRef, lv |-> liveTracks,
              calls |-> calls, vid |-> video, play |-> playing, tm |-> timers,
              dset |-> FALSE, ok |-> TRUE, ls |-> NoStream,
              ini |-> isInitializing, aw |-> awaited, ret |-> startReturned, auto |-> FALSE]

Closure(h) == [hp |-> h.hp, dv |-> h.dv, cd |-> h.cd, cp |-> h.cp]

\* videoRef.current is an element
VideoPresent == mountedRef /\ env.video

HookStreams(h) ==
    h.lv \cup {h.ref, h.vid.srcObject} \cup {h.calls[t].stream : t \in CallIds}

FreeCalls(h) == {t \in CallIds : h.calls[t].pc = "idle"}

FirstFree(h) == CHOOSE t \in FreeCalls(h) : \A u \in FreeCalls(h) : t <= u

\* forget the closures nothing can run any more
Collect(h) ==
    [h EXCEPT !.calls = [t \in CallIds |->
        IF h.calls[t].pc = "returned" /\ h.vid.owner # t /\ t \notin h.play /\ t \notin h.tm
        THEN IdleCall ELSE h.calls[t]]]

\* useState: while the component is mounted a setter takes effect with the next
\* render; the state of an unmounted component is gone and its setters do nothing.
AssignHook(h) ==
    /\ h.ok
    /\ devices' = IF mountedRef' THEN h.dv ELSE <<>>
    /\ currentDevice' = IF mountedRef' THEN h.cd ELSE NoDevice
    /\ isLoading' = IF mountedRef' THEN h.ld ELSE FALSE
    /\ isActive' = IF mountedRef' THEN h.ac ELSE FALSE
    /\ hasPermission' = IF mountedRef' THEN h.hp ELSE FALSE
    /\ error' = IF mountedRef' THEN h.er ELSE NoError
    /\ cameraPosition' = IF mountedRef' THEN h.cp ELSE env.preferredPosition
    /\ hasFrontAndBackCamera' = IF mountedRef' THEN h.fb ELSE FALSE
    /\ streamRef' = h.ref
    /\ liveTracks' = h.lv
    /\ calls' = h.calls
    /\ video' = h.vid
    /\ playing' = h.play
    /\ timers' = h.tm
    /\ lastStream' = h.ls
    /\ isInitializing' = IF mountedRef' THEN h.ini ELSE FALSE
    /\ awaited' = IF mountedRef' THEN h.aw ELSE 0
    /\ startReturned' = IF mountedRef' THEN h.ret ELSE FALSE
    /\ autoInit' = h.auto
    /\ env' = env

stopCurrentStream(h) ==
    IF h.ref # NoStream
    THEN [h EXCEPT !.lv = h.lv \ {h.ref}, !.ref = NoStream, !.ac = FALSE]
    ELSE h

\* initializeCamera up to `await requestCameraPermission()`, run as call t
initializeCamera(h, c, t, phase) ==
    IF ~env.secure
    THEN [h EXCEPT !.er = "Camera access requires a secure context (HTTPS)",
                   !.ld = FALSE, !.calls[t] = IdleCall]
    ELSE [h EXCEPT !.ld = TRUE, !.er = NoError,
                   !.calls[t] = [IdleCall EXCEPT !.pc = "permGUM", !.phase = phase, !.c = c]]

\* initializeCamera after requestCameraPermission succeeded with list
initializeCameraDone(h, list) ==
    LET id == identifyCameras(list)
        pref == env.preferredPosition
        initialDevice == IF pref = "front" /\ id.frontCamera # NoDevice THEN id.frontCamera
                         ELSE IF pref = "back" /\ id.backCamera # NoDevice THEN id.backCamera
                         ELSE list[1]
    IN [h EXCEPT !.hp = TRUE, !.dv = list, !.dset = TRUE,
                 !.fb = (id.frontCamera # NoDevice /\ id.backCamera # NoDevice),
                 !.cp = IF initialDevice = id.frontCamera THEN "front"
                        ELSE IF initialDevice = id.backCamera THEN "back" ELSE "other",
                 !.cd = initialDevice,
                 !.ld = FALSE]

\* startCamera from `setIsLoading(true)` to `await getUserMedia`
startCameraBody(h, c, t) ==
    LET h1 == stopCurrentStream([h EXCEPT !.ld = TRUE, !.er = NoError])
        id == identifyCameras(c.dv)
        deviceToUse ==
            IF c.cd # NoDevice THEN c.cd
            ELSE IF c.cp = "front" /\ id.frontCamera # NoDevice THEN id.frontCamera
            ELSE IF c.cp = "back" /\ id.backCamera # NoDevice THEN id.backCamera
            ELSE IF Len(c.dv) > 0 THEN c.dv[1]
            ELSE NoDevice
    IN IF c.cd = NoDevice /\ Len(c.dv) = 0
       THEN [h1 EXCEPT !.er = "No camera available", !.ld = FALSE, !.calls[t] = IdleCall]
       ELSE IF deviceToUse = NoDevice
       THEN [h1 EXCEPT !.er = "No camera device selected", !.ld = FALSE,
                       !.calls[t] = IdleCall]
       ELSE [h1 EXCEPT !.calls[t] = [IdleCall EXCEPT !.pc = "gum", !.phase = "start",
                                                     !.c = c, !.dev = deviceToUse,
                                                     !.hadStream = (h.ref # NoStream)]]

\* startCamera, called with the closure c, run as call t
startCamera(h, c, t) ==
    IF ~c.hp THEN initializeCamera(h, c, t, "start") ELSE startCameraBody(h, c, t)

\* the autoStart effect: its cleanup, then the effect of the new render
autoStartEffect(h) ==
    LET h1 == stopCurrentStream(h)
    IN IF ~env.autoStart THEN h1
       ELSE IF FreeCalls(Collect(h1)) = {} THEN [h1 EXCEPT !.ok = FALSE]
       ELSE initializeCamera(Collect(h1), Closure(h1), FirstFree(Collect(h1)), "auto")

\* startCamera has a new identity: one of its dependencies changed
DepsChanged(h) ==
    \/ h.dset
    \/ h.cd # currentDevice
    \/ h.cp # cameraPosition
    \/ h.hp # hasPermission

\* NativeCamera: the startCamera call that its initializeCamera awaits has
\* returned
NativeReturn(h) ==
    IF env.native /\ h.aw # 0 /\ h.calls[h.aw].pc \in {"idle", "returned"}
    THEN [h EXCEPT !.aw = 0, !.ret = TRUE]
    ELSE h

\* NativeCamera: `await startCamera()` for the call t that left the hook in h
nativeAwait(h, t) ==
    [h EXCEPT !.aw = IF h.calls[t].pc = "idle" THEN 0 ELSE t,
              !.ret = (h.calls[t].pc = "idle")]

\* NativeCamera: initializeCamera() from `setIsInitializing(true)` to
\* `await startCamera()`, with the startCamera of the render with closure c
nativeInitializeCamera(h, c) ==
    IF FreeCalls(Collect(h)) = {} THEN [h EXCEPT !.ok = FALSE]
    ELSE nativeAwait(startCamera([Collect(h) EXCEPT !.ini = TRUE], c, FirstFree(Collect(h))),
                     FirstFree(Collect(h)))

\* NativeCamera: the render with state h runs the auto-init effect, because
\* isActive, isLoading, isInitializing or initializeCamera differ from those
\* of the render before (state g), and the effect calls initializeCamera()
AutoInitRuns(g, h, newStartCamera) ==
    /\ h.ac # g.ac \/ h.ld # g.ld \/ h.ini # g.ini \/ newStartCamera
    /\ ~h.ac /\ ~h.ld /\ ~h.ini

\* NativeCamera: the auto-init effect.  It runs after the hook's effect in the
\* commit of the render with state h, and again in the commit of the render
\* with what the effects set (h1).
nativeEffect(h, h1) ==
    IF ~env.native \/ ~mountedRef THEN h1
    ELSE IF AutoInitRuns(HookState, h, DepsChanged(h)) \/ AutoInitRuns(h, h1, FALSE)
    THEN [nativeInitializeCamera(h1, IF AutoInitRuns(HookState, h, DepsChanged(h))
                                     THEN Closure(h) ELSE Closure(h1))
            EXCEPT !.auto = TRUE]
    ELSE h1

\* the re-render after a handler or continuation left the hook in state h
CommitHook(h, event) ==
    /\ \E h0 \in {NativeReturn(h)} :
       \E h1 \in {IF mountedRef /\ DepsChanged(h0) THEN autoStartEffect(h0) ELSE h0} :
       \E h2 \in {nativeEffect(h0, h1)} :
          AssignHook(Collect(h2))
    /\ lastEvent' = event
    /\ UNCHANGED <<feedVars, probeVars, frameVars, utilVars, pageVars, unattended>>

\* the component calls startCamera()
StartCamera ==
    /\ UNCHANGED mountedRef
    /\ mountedRef
    /\ FreeCalls(HookState) # {}
    /\ CommitHook(startCamera(HookState, Closure(HookState), FirstFree(HookState)),
                  "StartCamera")

\* the component calls stopCamera()
StopCamera ==
    /\ UNCHANGED mountedRef
    /\ mountedRef
    /\ CommitHook([stopCurrentStream(HookState) EXCEPT !.ac = FALSE], "StopCamera")

\* the component calls switchCamera()
switchCamera(h) ==
    LET newPosition == IF h.cp = "front" THEN "back" ELSE "front"
        id == identifyCameras(h.dv)
        h1 == [h EXCEPT !.cp = newPosition]
    IN IF newPosition = "front" /\ id.frontCamera # NoDevice
       THEN [found |-> TRUE, h |-> [h1 EXCEPT !.cd = id.frontCamera]]
       ELSE IF newPosition = "back" /\ id.backCamera # NoDevice
       THEN [found |-> TRUE, h |-> [h1 EXCEPT !.cd = id.backCamera]]
       ELSE [found |-> FALSE, h |-> h1]

SwitchCamera ==
    /\ UNCHANGED mountedRef
    /\ mountedRef
    /\ \E r \in {switchCamera(HookState)} :
          IF r.found /\ isActive
          THEN /\ FreeCalls(HookState) # {}
               /\ CommitHook(startCamera(r.h, Closure(HookState), FirstFree(HookState)),
                             "SwitchCamera")
          ELSE CommitHook(r.h, IF r.found THEN "SwitchCamera" ELSE "SwitchCameraFailed")

\* the component unmounts: cleanup of the autoStart effect
Unmount ==
    /\ mountedRef
    /\ mountedRef' = FALSE
    /\ AssignHook(Collect(stopCurrentStream(HookState)))
    /\ lastEvent' = "Unmount"
    /\ UNCHANGED <<feedVars, probeVars, frameVars, utilVars, pageVars, unattended>>

\* requestCameraPermission: getUserMedia resolves, the test stream is stopped
PermissionGranted(t) ==
    /\ UNCHANGED mountedRef
    /\ calls[t].pc = "permGUM"
    /\ CommitHook([HookState EXCEPT !.calls[t].pc = "permEnum"], "PermissionGranted")

\* requestCameraPermission: getUserMedia rejects
PermissionDenied(t) ==
    /\ UNCHANGED mountedRef
    /\ calls[t].pc = "permGUM"
    /\ CommitHook([HookState EXCEPT !.er = "Camera access denied", !.ld = FALSE,
                                    !.hp = FALSE, !.calls[t] = IdleCall],
                  "PermissionDenied")

\* requestCameraPermission: enumerateDevices resolves
DevicesEnumerated(t) ==
    /\ UNCHANGED mountedRef
    /\ calls[t].pc = "permEnum"
    /\ IF Len(env.devices) = 0
       THEN CommitHook([HookState EXCEPT !.er = "No camera devices detected", !.ld = FALSE,
                                         !.hp = FALSE, !.calls[t] = IdleCall],
                       "NoDevices")
       ELSE \E h \in {initializeCameraDone(HookState, env.devices)} :
               CommitHook(IF calls[t].phase = "auto"
                          THEN startCamera(h, calls[t].c, t)
                          ELSE startCameraBody(h, calls[t].c, t),
                          "DevicesEnumerated")

\* startCamera: getUserMedia resolves
UserMediaGranted(t) ==
    /\ UNCHANGED mountedRef
    /\ calls[t].pc = "gum"
    /\ HasFresh(HookStreams(HookState))
    /\ \E stream \in {Fresh(HookStreams(HookState))} :
          IF VideoPresent
          THEN CommitHook([HookState EXCEPT !.ref = stream, !.lv = liveTracks \cup {stream},
                                            !.vid = [srcObject |-> stream, owner |-> t],
                                            !.calls[t] =
                                               [Returned(calls[t].dev, stream)
                                                  EXCEPT !.hadStream = calls[t].hadStream]],
                          "UserMediaGranted")
          ELSE CommitHook([HookState EXCEPT !.ref = stream, !.lv = liveTracks \cup {stream},
                                            !.er = "Failed to start camera", !.ld = FALSE,
                                            !.calls[t] = IdleCall, !.ls = stream],
                          "VideoElementMissing")

DomErrors == {"NotReadableError"}

ErrorMessage(name) ==
    IF name = "NotAllowedError" THEN "Camera access denied"
    ELSE IF name = "NotFoundError" THEN "Selected camera not found"
    ELSE IF name = "NotReadableError" THEN "Camera is in use by another application"
    ELSE "Failed to start camera"

\* startCamera: getUserMedia rejects
UserMediaDenied(t) ==
    /\ UNCHANGED mountedRef
    /\ calls[t].pc = "gum"
    /\ \E name \in DomErrors :
          CommitHook([HookState EXCEPT !.er = ErrorMessage(name), !.ld = FALSE,
                                       !.calls[t] = IdleCall],
                     "UserMediaDenied")

\* videoRef.current.onloadedmetadata
OnLoadedMetadata ==
    /\ UNCHANGED mountedRef
    /\ video.owner # 0
    /\ video.srcObject \in liveTracks
    /\ CommitHook([HookState EXCEPT !.vid.owner = 0,
                                    !.play = IF VideoPresent THEN playing \cup {video.owner}
                                             ELSE playing],
                  "OnLoadedMetadata")

\* play().then
PlaySucceeded(t) ==
    /\ UNCHANGED mountedRef
    /\ t \in playing
    /\ CommitHook([HookState EXCEPT !.ac = TRUE, !.cd = calls[t].dev, !.ld = FALSE,
                                    !.play = playing \ {t}, !.ls = calls[t].stream],
                  "PlaySucceeded")

\* play().catch
PlayFailed(t) ==
    /\ UNCHANGED mountedRef
    /\ t \in playing
    /\ CommitHook([HookState EXCEPT !.er = "Unable to play video feed", !.ld = FALSE,
                                    !.play = playing \ {t}, !.ls = calls[t].stream],
                  "PlayFailed")

\* The components that use the hook: NativeCamera (autoStart, 'back', a <video>)
\* and a component with the default options, with or without a <video>.
Consumers == {[autoStart |-> TRUE, preferredPosition |-> "back", video |-> TRUE],
              [autoStart |-> FALSE, preferredPosition |-> "front", video |-> TRUE],
              [autoStart |-> FALSE, preferredPosition |-> "front", video |-> FALSE]}

Environments ==
    {[devices |-> d, deviceType |-> ty, secure |-> sec, autoStart |-> c.autoStart,
      preferredPosition |-> c.preferredPosition, video |-> c.video, native |-> FALSE] :
        d \in EnvDeviceLists, ty \in {"mobile", "desktop"}, sec \in BOOLEAN, c \in Consumers}

\* state of the hook after mount, the autoStart effect included
HookMounted(environments) ==
    /\ env \in environments
    /\ devices = <<>>
    /\ currentDevice = NoDevice
    /\ isLoading = (env.autoStart /\ env.secure)
    /\ isActive = FALSE
    /\ hasPermission = FALSE
    /\ error = IF env.autoStart /\ ~env.secure
               THEN "Camera access requires a secure context (HTTPS)" ELSE NoError
    /\ cameraPosition = env.preferredPosition
    /\ hasFrontAndBackCamera = FALSE
    /\ streamRef = NoStream
    /\ mountedRef = TRUE
    /\ video = NoHookVideo
    /\ calls = [t \in CallIds |->
                  IF t = 1 /\ env.autoStart /\ env.secure
                  THEN [IdleCall EXCEPT !.pc = "permGUM", !.phase = "auto",
                                        !.c = [NoClosure EXCEPT !.cp = env.preferredPosition]]
                  ELSE IdleCall]
    /\ playing = {}
    /\ timers = {}
    /\ lastStream = NoStream
    /\ isInitializing = FALSE
    /\ awaited = 0
    /\ startReturned = FALSE
    /\ autoInit = FALSE

HookInit == HookMounted(Environments)

\* the hook is not in use
HookUnused ==
    /\ env = [devices |-> <<>>, deviceType |-> "desktop", secure |-> TRUE,
              autoStart |-> FALSE, preferredPosition |-> "front", video |-> TRUE,
              native |-> FALSE]
    /\ devices = <<>>
    /\ currentDevice = NoDevice
    /\ isLoading = FALSE
    /\ isActive = FALSE
    /\ hasPermission = FALSE
    /\ error = NoError
    /\ cameraPosition = "front"
    /\ hasFrontAndBackCamera = FALSE
    /\ streamRef = NoStream
    /\ mountedRef = TRUE
    /\ video = NoHookVideo
    /\ calls = [t \in CallIds |-> IdleCall]
    /\ playing = {}
    /\ timers = {}
    /\ lastStream = NoStream
    /\ isInitializing = FALSE
    /\ awaited = 0
    /\ startReturned = FALSE
    /\ autoInit = FALSE

\* the feed is not in use
FeedUnused ==
    /\ cameraUrl = ""
    /\ loading = TRUE
    /\ feedError = NoError
    /\ useCorsBypass = TRUE
    /\ videoMode = "direct"
    /\ retryAttempts = ZeroAttempts
    /\ usingDeviceCamera = FALSE
    /\ feedDevices = <<>>
    /\ selectedDeviceId = ""
    /\ feedStreamRef = NoStream
    /\ feedVideo = NoVideo
    /\ getDevicesAwait = [gum |-> 0, enum |-> 0]
    /\ startCameraAwait = 0
    /\ playAwait = 0
    /\ onErrorCalls = 0

\* ------------------------------------------------------------------------
\* State of JoystickControl.tsx and of the medicine schedule of Index.tsx
\* ------------------------------------------------------------------------
\* no command was passed to onMove yet
NoCommand == "none"

\* the knob at rest: translate(0px, 0px)
KnobCentre == [dx |-> 0, dy |-> 0, clamped |-> FALSE]

\* JoystickControl after mount: the handlers of the first render are registered
JoystickInit ==
    /\ active = FALSE
    /\ lastDirection = "stop"
    /\ knob = KnobCentre
    /\ listeners = [active |-> FALSE, lastDirection |-> "stop"]
    /\ lastSent = NoCommand
    /\ emitted = FALSE
    /\ dragSent = FALSE

\* the medicines the user can schedule: name, time of day (hours, minutes)
\* and drawer
MedicinePool ==
    { [name |-> "Aspirin", time |-> <<0, 1>>, drawer |-> "drawer1"],
      [name |-> "Insulin", time |-> <<0, 1>>, drawer |-> "drawer2"],
      [name |-> "Vitamin D", time |-> <<0, 2>>, drawer |-> "drawer1"] }

NoneYet == [m \in MedicinePool |-> 0]

\* the page does not run its schedule check
ScheduleUnused ==
    /\ scheduledMedicines = <<>>
    /\ now = 0
    /\ remaining = 0
    /\ notified = NoneYet
    /\ opened = NoneYet

\* neither the joystick nor the schedule is in use
PageUnused ==
    /\ JoystickInit
    /\ ScheduleUnused

\* the requests of the <img> are not followed
ImgUntracked ==
    /\ clockAdvanced = FALSE
    /\ imgSrc = NoSrc
    /\ probes = 0

\* no call of the detection and URL helpers is observed
UtilsUnused ==
    /\ cameraSupported = TRUE
    /\ permission = NoPermissionCall
    /\ identified = NotIdentified
    /\ urlArg = EmptyUrl
    /\ urlResult = NoUrlResult

\* the revision with the load timeout is not in use
FrameUnused ==
    /\ frameUrl = EmptyUrl
    /\ frameLoading = TRUE
    /\ frameError = FALSE
    /\ imgError = FALSE
    /\ fallbackMode = "iframe"
    /\ timeout = NoTimeout
    /\ onUrlChange = FALSE

InitHook ==
    /\ HookInit
    /\ FeedUnused
    /\ FrameUnused
    /\ UtilsUnused
    /\ ImgUntracked
    /\ PageUnused
    /\ liveTracks = {}
    /\ lastEvent = "mount"
    /\ unattended = TRUE

NextHook ==
    \/ StartCamera
    \/ StopCamera
    \/ SwitchCamera
    \/ Unmount
    \/ \E t \in CallIds : PermissionGranted(t)
    \/ \E t \in CallIds : PermissionDenied(t)
    \/ \E t \in CallIds : DevicesEnumerated(t)
    \/ \E t \in CallIds : UserMediaGranted(t)
    \/ \E t \in CallIds : UserMediaDenied(t)
    \/ OnLoadedMetadata
    \/ \E t \in CallIds : PlaySucceeded(t)
    \/ \E t \in CallIds : PlayFailed(t)

SpecHook == InitHook /\ [][NextHook]_vars

\* ------------------------------------------------------------------------
\* NativeCamera (src/src/components/NativeCamera.tsx) on useCamera
\* ------------------------------------------------------------------------
\* useCamera({ autoStart: true, preferredPosition: 'back' }) with the <video>
NativeEnvironments ==
    {[devices |-> d, deviceType |-> ty, secure |-> sec, autoStart |-> TRUE,
      preferredPosition |-> "back", video |-> TRUE, native |-> TRUE] :
        d \in EnvDeviceLists, ty \in {"mobile", "desktop"}, sec \in BOOLEAN}

\* `await startCamera()` resumes: finally setIsInitializing(false)
StartCameraReturned ==
    /\ UNCHANGED mountedRef
    /\ mountedRef
    /\ startReturned
    /\ CommitHook([HookState EXCEPT !.ini = FALSE, !.ret = FALSE], "StartCameraReturned")

\* the 'Try Again' button of the error panel: handleRetry
TryAgain ==
    /\ UNCHANGED mountedRef
    /\ mountedRef
    /\ error # NoError
    /\ ~isInitializing
    /\ CommitHook(IF isActive THEN HookState
                  ELSE nativeInitializeCamera(HookState, Closure(HookState)),
                  "TryAgain")

\* After the mount: the autoStart effect of the hook has called its
\* initializeCamera(), and the auto-init effect of the component, which saw
\* isActive, isLoading and isInitializing false, has called startCamera().
InitNative ==
    /\ env \in NativeEnvironments
    /\ devices = <<>>
    /\ currentDevice = NoDevice
    /\ isLoading = env.secure
    /\ isActive = FALSE
    /\ hasPermission = FALSE
    /\ error = IF env.secure THEN NoError
               ELSE "Camera access requires a secure context (HTTPS)"
    /\ cameraPosition = env.preferredPosition
    /\ hasFrontAndBackCamera = FALSE
    /\ streamRef = NoStream
    /\ mountedRef = TRUE
    /\ video = NoHookVideo
    /\ calls = [t \in CallIds |->
                  IF env.secure /\ t \in {1, 2}
                  THEN [IdleCall EXCEPT !.pc = "permGUM",
                                        !.phase = IF t = 1 THEN "auto" ELSE "start",
                                        !.c = [NoClosure EXCEPT !.cp = env.preferredPosition]]
                  ELSE IdleCall]
    /\ playing = {}
    /\ timers = {}
    /\ lastStream = NoStream
    /\ isInitializing = TRUE
    /\ awaited = IF env.secure THEN 2 ELSE 0
    /\ startReturned = ~env.secure
    /\ autoInit = TRUE
    /\ FeedUnused
    /\ FrameUnused
    /\ UtilsUnused
    /\ ImgUntracked
    /\ PageUnused
    /\ liveTracks = {}
    /\ lastEvent = "mount"
    /\ unattended = TRUE

\* The await of the component resumes before any other event is handled.
\* The user's only action here is 'Try Again'; the switch button, shown while
\* the camera is active, is left out.
NextNative ==
    \/ StartCameraReturned
    \/ ~startReturned /\ TryAgain
    \/ ~startReturned /\ Unmount
    \/ ~startReturned /\ \E t \in CallIds : PermissionGranted(t)
    \/ ~startReturned /\ \E t \in CallIds : PermissionDenied(t)
    \/ ~startReturned /\ \E t \in CallIds : DevicesEnumerated(t)
    \/ ~startReturned /\ \E t \in CallIds : UserMediaGranted(t)
    \/ ~startReturned /\ \E t \in CallIds : UserMediaDenied(t)
    \/ ~startReturned /\ OnLoadedMetadata
    \/ ~startReturned /\ \E t \in CallIds : PlaySucceeded(t)
    \/ ~startReturned /\ \E t \in CallIds : PlayFailed(t)

SpecNative == InitNative /\ [][NextNative]_vars

\* ------------------------------------------------------------------------
\* useCamera, the revision with mountedRef and the readiness timeout
\* (src/capacitor.config.ts, lines 490-949)
\* ------------------------------------------------------------------------

\* what this startCamera reads of its closure: hasPermission (cameraPosition
\* picks the facingMode constraint only, and getUserMedia is free to resolve or
\* reject under either constraint)
ClosureRev(h) == [NoClosure EXCEPT !.hp = h.hp]

handleErrorRev(h, errorMessage) ==
    IF ~mountedRef THEN h ELSE [h EXCEPT !.er = errorMessage]

\* a stop that stops the tracks and keeps the reference
stopCurrentStreamRevKeepsRef(h) ==
    LET h1 == IF h.ref # NoStream
              THEN [h EXCEPT !.lv = h.lv \ {h.ref}]
              ELSE h
    IN IF mountedRef THEN [h1 EXCEPT !.ac = FALSE] ELSE h1

stopCurrentStreamRev(h) ==
    LET h1 == IF h.ref # NoStream
              THEN [h EXCEPT !.lv = h.lv \ {h.ref}, !.ref = NoStream]
              ELSE h
    IN IF mountedRef THEN [h1 EXCEPT !.ac = FALSE] ELSE h1

\* initializeCamera up to `await requestCameraPermission()`, run as call t
initializeCameraRev(h, c, t, phase) ==
    IF ~mountedRef THEN [h EXCEPT !.calls[t] = IdleCall]
    ELSE IF ~env.secure
    THEN [handleErrorRev(h, "Camera access requires a secure context (HTTPS)")
            EXCEPT !.ld = FALSE, !.calls[t] = IdleCall]
    ELSE [h EXCEPT !.ld = TRUE, !.er = NoError,
                   !.calls[t] = [IdleCall EXCEPT !.pc = "permGUM", !.phase = phase, !.c = c]]

\* startCamera from `setIsLoading(true)` to the first `await getUserMedia`
startCameraBodyRev(h, c, t) ==
    [stopCurrentStreamRev([h EXCEPT !.ld = TRUE, !.er = NoError])
        EXCEPT !.calls[t] = [IdleCall EXCEPT !.pc = "gum", !.phase = "start"]]

\* startCamera, called with the closure c, run as call t
startCameraRev(h, c, t) ==
    IF ~mountedRef THEN [h EXCEPT !.calls[t] = IdleCall]
    ELSE IF ~c.hp THEN initializeCameraRev(h, c, t, "start")
    ELSE startCameraBodyRev(h, c, t)

\* the autoStart effect: its cleanup, then the effect of the new render
autoStartEffectRev(h) ==
    LET h1 == stopCurrentStreamRev(h)
    IN IF ~(env.autoStart /\ mountedRef) THEN h1
       ELSE IF FreeCalls(Collect(h1)) = {} THEN [h1 EXCEPT !.ok = FALSE]
       ELSE initializeCameraRev(Collect(h1), ClosureRev(h1), FirstFree(Collect(h1)), "auto")

\* startCamera has a new identity: cameraPosition or hasPermission changed
DepsChangedRev(h) ==
    \/ h.cp # cameraPosition
    \/ h.hp # hasPermission

CommitHookRev(h, event) ==
    /\ \E h1 \in {IF mountedRef /\ DepsChangedRev(h) THEN autoStartEffectRev(h) ELSE h} :
          AssignHook(Collect(h1))
    /\ lastEvent' = event
    /\ UNCHANGED <<feedVars, probeVars, frameVars, utilVars, pageVars, unattended>>

StartCameraRev ==
    /\ UNCHANGED mountedRef
    /\ mountedRef
    /\ FreeCalls(HookState) # {}
    /\ CommitHookRev(startCameraRev(HookState, ClosureRev(HookState), FirstFree(HookState)),
                     "StartCamera")

StopCameraRev ==
    /\ UNCHANGED mountedRef
    /\ mountedRef
    /\ CommitHookRev(stopCurrentStreamRev(HookState), "StopCamera")

\* switchCamera: the restart it asks for, if any
switchCameraRev(h) ==
    LET newPosition == IF h.cp = "front" THEN "back" ELSE "front"
        h1 == [stopCurrentStreamRev(h) EXCEPT !.cp = newPosition]
        id == identifyCameras(h.dv)
    IN IF env.deviceType = "mobile" THEN [start |-> TRUE, h |-> h1]
       ELSE IF newPosition = "front" /\ id.frontCamera # NoDevice
       THEN [start |-> TRUE, h |-> [h1 EXCEPT !.cd = id.frontCamera]]
       ELSE IF newPosition = "back" /\ id.backCamera # NoDevice
       THEN [start |-> TRUE, h |-> [h1 EXCEPT !.cd = id.backCamera]]
       ELSE [start |-> FALSE, h |-> h1]

SwitchCameraRev ==
    /\ UNCHANGED mountedRef
    /\ mountedRef
    /\ \E r \in {switchCameraRev(HookState)} :
          IF r.start
          THEN /\ FreeCalls(HookState) # {}
               /\ CommitHookRev(startCameraRev(r.h, ClosureRev(HookState), FirstFree(HookState)),
                                "SwitchCamera")
          ELSE CommitHookRev(r.h, "SwitchCameraFailed")

\* unmount: mountedRef.current = false and the tracks stopped, then the
\* cleanup of the autoStart effect (stopCurrentStream)
UnmountRev ==
    /\ mountedRef
    /\ mountedRef' = FALSE
    /\ AssignHook(Collect([HookState EXCEPT !.lv = liveTracks \ {streamRef},
                                            !.ref = NoStream]))
    /\ lastEvent' = "Unmount"
    /\ UNCHANGED <<feedVars, probeVars, frameVars, utilVars, pageVars, unattended>>

PermissionGrantedRev(t) ==
    /\ UNCHANGED mountedRef
    /\ calls[t].pc = "permGUM"
    /\ CommitHookRev([HookState EXCEPT !.calls[t].pc = "permEnum"], "PermissionGranted")

PermissionDeniedRev(t) ==
    /\ UNCHANGED mountedRef
    /\ calls[t].pc = "permGUM"
    /\ CommitHookRev(IF ~mountedRef THEN [HookState EXCEPT !.calls[t] = IdleCall]
                     ELSE [handleErrorRev(HookState, "Camera access denied")
                             EXCEPT !.ld = FALSE, !.hp = FALSE, !.calls[t] = IdleCall],
                     "PermissionDenied")

DevicesEnumeratedRev(t) ==
    /\ UNCHANGED mountedRef
    /\ calls[t].pc = "permEnum"
    /\ IF ~mountedRef
       THEN CommitHookRev([HookState EXCEPT !.calls[t] = IdleCall], "DevicesEnumerated")
       ELSE IF Len(env.devices) = 0
       THEN CommitHookRev([handleErrorRev(HookState, "No camera devices detected")
                             EXCEPT !.ld = FALSE, !.hp = FALSE, !.calls[t] = IdleCall],
                          "NoDevices")
       ELSE \E h \in {initializeCameraDone(HookState, env.devices)} :
               CommitHookRev(IF calls[t].phase = "auto"
                             THEN startCameraRev(h, calls[t].c, t)
                             ELSE startCameraBodyRev(h, calls[t].c, t),
                             "DevicesEnumerated")

\* startCamera after a getUserMedia resolved with stream: the readiness promise
armReadiness(h, t, stream) ==
    LET old == h.vid.srcObject
    IN [h EXCEPT !.ref = stream,
                 !.lv = (h.lv \cup {stream}) \ (IF old # NoStream THEN {old} ELSE {}),
                 !.vid = [srcObject |-> stream, owner |-> t],
                 !.tm = h.tm \cup {t},
                 !.calls[t] = [IdleCall EXCEPT !.pc = "ready", !.stream = stream]]

UserMediaGrantedRev(t) ==
    /\ UNCHANGED mountedRef
    /\ calls[t].pc \in {"gum", "gum2"}
    /\ HasFresh(HookStreams(HookState))
    /\ \E stream \in {Fresh(HookStreams(HookState))} : \E videoTracks \in BOOLEAN :
          IF ~mountedRef
          THEN CommitHookRev([HookState EXCEPT !.calls[t] = IdleCall], "UserMediaDiscarded")
          ELSE IF ~videoTracks
          THEN CommitHookRev([handleErrorRev(HookState, "No video tracks found in the stream")
                                EXCEPT !.ld = FALSE, !.calls[t] = IdleCall],
                             "NoVideoTracks")
          ELSE IF ~VideoPresent
          THEN CommitHookRev([handleErrorRev(HookState, "Video element not available")
                                EXCEPT !.ref = stream, !.lv = liveTracks \cup {stream},
                                       !.ld = FALSE, !.calls[t] = IdleCall, !.ls = stream],
                             "VideoElementMissing")
          ELSE CommitHookRev(armReadiness(HookState, t, stream), "UserMediaGranted")

ErrorMessageRev(name) ==
    IF name = "OverconstrainedError" THEN "Camera doesn't support the required resolution"
    ELSE ErrorMessage(name)

UserMediaDeniedRev(t) ==
    /\ UNCHANGED mountedRef
    /\ \/ /\ calls[t].pc = "gum"
          /\ CommitHookRev([HookState EXCEPT !.calls[t].pc = "gum2"], "UserMediaFallback")
       \/ /\ calls[t].pc = "gum2"
          /\ \E name \in DomErrors :
                CommitHookRev(IF ~mountedRef THEN [HookState EXCEPT !.calls[t] = IdleCall]
                              ELSE [handleErrorRev(HookState, ErrorMessageRev(name))
                                      EXCEPT !.ld = FALSE, !.calls[t] = IdleCall],
                              "UserMediaDenied")

\* a setTimeout callback that reports the error and leaves the session alone
TimeoutRevKeepsStream(t) ==
    /\ UNCHANGED mountedRef
    /\ t \in timers
    /\ CommitHookRev([handleErrorRev(HookState, "Video loading timed out")
                        EXCEPT !.ld = FALSE, !.tm = timers \ {t},
                               !.calls[t] = Returned(NoDevice, calls[t].stream),
                               !.ls = calls[t].stream],
                     "Timeout")

\* the setTimeout callback of call t: handleError, stopCurrentStream,
\* setIsLoading(false), resolve(false)
TimeoutRev(t) ==
    /\ UNCHANGED mountedRef
    /\ t \in timers
    /\ CommitHookRev([stopCurrentStreamRev(handleErrorRev(HookState, "Video loading timed out"))
                        EXCEPT !.ld = FALSE, !.tm = timers \ {t},
                               !.calls[t] = Returned(NoDevice, calls[t].stream),
                               !.ls = calls[t].stream],
                     "Timeout")

\* videoRef.current.onloadedmetadata
OnLoadedMetadataRev ==
    /\ UNCHANGED mountedRef
    /\ video.owner # 0
    /\ video.srcObject \in liveTracks
    /\ LET t == video.owner
           h == [HookState EXCEPT !.vid.owner = 0, !.tm = timers \ {t}]
       IN IF ~VideoPresent
          THEN CommitHookRev([stopCurrentStreamRev(h)
                                EXCEPT !.ld = FALSE,
                                       !.calls[t] = Returned(NoDevice, calls[t].stream)],
                             "OnLoadedMetadata")
          ELSE CommitHookRev([h EXCEPT !.play = playing \cup {t}], "OnLoadedMetadata")

\* videoRef.current.onerror
OnVideoErrorRev ==
    /\ UNCHANGED mountedRef
    /\ video.owner # 0
    /\ LET t == video.owner
       IN CommitHookRev([handleErrorRev(HookState, "Error loading video stream")
                           EXCEPT !.vid.owner = 0, !.tm = timers \ {t}, !.ld = FALSE,
                                  !.calls[t] = Returned(NoDevice, calls[t].stream),
                                  !.ls = calls[t].stream],
                        "VideoError")

PlaySucceededRev(t) ==
    /\ UNCHANGED mountedRef
    /\ t \in playing
    /\ CommitHookRev(IF ~mountedRef
                     THEN [stopCurrentStreamRev(HookState)
                             EXCEPT !.play = playing \ {t},
                                    !.calls[t] = Returned(NoDevice, calls[t].stream)]
                     ELSE [HookState EXCEPT !.ac = TRUE, !.ld = FALSE, !.play = playing \ {t},
                                            !.calls[t] = Returned(NoDevice, calls[t].stream),
                                            !.ls = calls[t].stream],
                     "PlaySucceeded")

PlayFailedRev(t) ==
    /\ UNCHANGED mountedRef
    /\ t \in playing
    /\ CommitHookRev([handleErrorRev(HookState, "Unable to play video feed")
                        EXCEPT !.ld = FALSE, !.play = playing \ {t},
                               !.calls[t] = Returned(NoDevice, calls[t].stream),
                               !.ls = calls[t].stream],
                     "PlayFailed")

NextHookRev ==
    \/ StartCameraRev
    \/ StopCameraRev
    \/ SwitchCameraRev
    \/ UnmountRev
    \/ \E t \in CallIds : PermissionGrantedRev(t)
    \/ \E t \in CallIds : PermissionDeniedRev(t)
    \/ \E t \in CallIds : DevicesEnumeratedRev(t)
    \/ \E t \in CallIds : UserMediaGrantedRev(t)
    \/ \E t \in CallIds : UserMediaDeniedRev(t)
    \/ \E t \in CallIds : TimeoutRev(t)
    \/ OnLoadedMetadataRev
    \/ OnVideoErrorRev
    \/ \E t \in CallIds : PlaySucceededRev(t)
    \/ \E t \in CallIds : PlayFailedRev(t)

SpecHookRev == InitHook /\ [][NextHookRev]_vars

FeedInit ==
    /\ cameraUrl \in Urls
    /\ loading = TRUE
    /\ feedError = NoError
    /\ useCorsBypass = TRUE
    /\ videoMode = "direct"
    /\ retryAttempts = ZeroAttempts
    /\ usingDeviceCamera = FALSE
    /\ feedDevices = <<>>
    /\ selectedDeviceId = ""
    /\ feedStreamRef = NoStream
    /\ feedVideo = NoVideo
    /\ getDevicesAwait = [gum |-> 0, enum |-> 0]
    /\ startCameraAwait = 0
    /\ playAwait = 0
    /\ onErrorCalls = 0

Init ==
    /\ FeedInit
    /\ HookUnused
    /\ FrameUnused
    /\ UtilsUnused
    /\ ImgUntracked
    /\ PageUnused
    /\ liveTracks = {}
    /\ lastEvent = "mount"
    /\ unattended = TRUE

NextFeed ==
    \/ ProbeError /\ UNCHANGED probeVars
    \/ ProbeLoad /\ UNCHANGED probeVars
    \/ ToggleCameraSource /\ UNCHANGED probeVars
    \/ ReloadCamera /\ UNCHANGED probeVars
    \/ CorsBypassToggle /\ UNCHANGED probeVars
    \/ ModeButton /\ UNCHANGED probeVars
    \/ HandleDeviceChange /\ UNCHANGED probeVars
    \/ SetCameraUrl /\ UNCHANGED probeVars
    \/ GetDevicesGranted /\ UNCHANGED probeVars
    \/ GetDevicesDenied /\ UNCHANGED probeVars
    \/ GetDevicesEnumerated /\ UNCHANGED probeVars
    \/ StartCameraGranted /\ UNCHANGED probeVars
    \/ StartCameraDenied /\ UNCHANGED probeVars
    \/ LoadedMetadata /\ UNCHANGED probeVars
    \/ PlayResolved /\ UNCHANGED probeVars
    \/ PlayRejected /\ UNCHANGED probeVars

SpecFeed == Init /\ [][NextFeed]_vars

\* Every pending promise of the component settles.  Neither the events of the
\* <img> and <video> elements nor the user's actions are required to happen.
FeedFairness ==
    /\ WF_vars((GetDevicesGranted \/ GetDevicesDenied) /\ UNCHANGED probeVars)
    /\ WF_vars(GetDevicesEnumerated /\ UNCHANGED probeVars)
    /\ WF_vars((StartCameraGranted \/ StartCameraDenied) /\ UNCHANGED probeVars)
    /\ WF_vars((PlayResolved \/ PlayRejected) /\ UNCHANGED probeVars)

SpecFeedFair == Init /\ [][NextFeed]_vars /\ FeedFairness

\* ------------------------------------------------------------------------
\* The <img> of CameraFeed and the requests it makes
\* ------------------------------------------------------------------------
\* getVideoUrl() of a render with url, vm and cors: the endpoint of the mode,
\* through the proxy or not, with `?t=${Date.now()}` in img mode only
getVideoUrl(url, vm, cors) ==
    IF url = "" THEN NoSrc
    ELSE [base |-> url,
          endpoint |-> IF url = "192.168.1.50:8080"
                       THEN CASE vm = "mjpeg" -> "/video"
                              [] vm = "direct" -> "/videofeed"
                              [] vm = "img" -> "/shot.jpg"
                              [] OTHER -> "/video"
                       ELSE CASE vm = "direct" -> "/video"
                              [] vm = "mjpeg" -> "/videofeed"
                              [] vm = "img" -> "/photo.jpg"
                              [] OTHER -> "/video",
          proxied |-> cors,
          token |-> (vm = "img")]

\* the src of the <img> a render shows, NoSrc when it shows none
RenderedSrc(er, vm, url, udc, cors) ==
    IF ImgRendered(er, vm, url, udc) THEN getVideoUrl(url, vm, cors) ELSE NoSrc

\* React state and props of the component
ReactState == <<cameraUrl, loading, feedError, useCorsBypass, videoMode, retryAttempts,
                usingDeviceCamera, feedDevices, selectedDeviceId>>

\* The <img> after the step of a handler.  The component renders again only
\* when its state or props changed.  A render gives the <img> the key
\* `${videoMode}-${Date.now()}` and the src getVideoUrl(): the element is
\* mounted anew, and requests its src, when the mode or the clock changed, and
\* requests its src when the src changed.
ImgRender ==
    LET rendered == ReactState' # ReactState
        shown == ImgRendered(feedError, videoMode, cameraUrl, usingDeviceCamera)
        src == RenderedSrc(feedError', videoMode', cameraUrl', usingDeviceCamera',
                           useCorsBypass')
        entered == ~shown \/ videoMode' # videoMode \/ src # imgSrc
        requested == rendered /\ (entered \/ clockAdvanced)
    IN /\ imgSrc' = src
       /\ clockAdvanced' = IF rendered THEN FALSE ELSE clockAdvanced
       /\ probes' = IF src = NoSrc THEN 0
                    ELSE IF entered THEN 1
                    ELSE IF requested THEN probes + 1
                    ELSE probes
       /\ probes' <= MaxProbes

\* A display interval passes: Date.now() advances.  The component has no
\* timer, so no handler runs and nothing renders.
DisplayInterval ==
    /\ ~clockAdvanced
    /\ clockAdvanced' = TRUE
    /\ lastEvent' = "DisplayInterval"
    /\ UNCHANGED <<feedVars, hookVars, frameVars, utilVars, pageVars, platformVars, imgSrc, probes,
                   unattended>>

InitProbe ==
    /\ FeedInit
    /\ HookUnused
    /\ FrameUnused
    /\ UtilsUnused
    /\ clockAdvanced = FALSE
    /\ imgSrc = RenderedSrc(feedError, videoMode, cameraUrl, usingDeviceCamera, useCorsBypass)
    /\ probes = IF imgSrc = NoSrc THEN 0 ELSE 1
    /\ PageUnused
    /\ liveTracks = {}
    /\ lastEvent = "mount"
    /\ unattended = TRUE

NextProbe ==
    \/ ProbeError /\ ImgRender
    \/ ProbeLoad /\ ImgRender
    \/ ToggleCameraSource /\ ImgRender
    \/ ReloadCamera /\ ImgRender
    \/ CorsBypassToggle /\ ImgRender
    \/ ModeButton /\ ImgRender
    \/ HandleDeviceChange /\ ImgRender
    \/ SetCameraUrl /\ ImgRender
    \/ GetDevicesGranted /\ ImgRender
    \/ GetDevicesDenied /\ ImgRender
    \/ GetDevicesEnumerated /\ ImgRender
    \/ StartCameraGranted /\ ImgRender
    \/ StartCameraDenied /\ ImgRender
    \/ LoadedMetadata /\ ImgRender
    \/ PlayResolved /\ ImgRender
    \/ PlayRejected /\ ImgRender
    \/ DisplayInterval

SpecProbe == InitProbe /\ [][NextProbe]_vars

\* ------------------------------------------------------------------------
\* cameraUtils.ts: a URL is the sequence of its parts between '/'
\* ------------------------------------------------------------------------
StartsWithScheme(url) == Len(url) >= 3 /\ url[1] \in {"http:", "https:"} /\ url[2] = ""

formatCameraUrl(url) ==
    IF url = EmptyUrl THEN EmptyUrl
    ELSE IF ~StartsWithScheme(url) THEN <<"http:", "">> \o url
    ELSE SubSeq(url, 1, 3)

\* both branches return formattedUrl
detectCameraType(url) == formatCameraUrl(url)

\* ------------------------------------------------------------------------
\* CameraFeed with the load timeout (unnamed/part_006)
\* ------------------------------------------------------------------------
FrameUrls == {EmptyUrl,
              <<"192.168.1.50:8080">>,
              <<"192.168.1.50:8080", "video">>,
              <<"http:", "", "192.168.1.50:8080">>,
              <<"http:", "", "192.168.1.50:8080", "video">>}

FrameState == [url |-> frameUrl, ld |-> frameLoading, er |-> frameError, ie |-> imgError,
               fb |-> fallbackMode, tm |-> timeout]

\* The effect of lines 41-80, run in the render of state s: its cleanup
\* clears the timer of the previous run; the callback of the new timer closes
\* over loading, fallbackMode and imgError of this render.  When the parent
\* is told another URL it passes it back, and the effect runs again.
RECURSIVE FrameEffect(_)
FrameEffect(s) ==
    LET s1 == [s EXCEPT !.ld = TRUE, !.er = FALSE, !.ie = FALSE, !.tm = NoTimeout]
    IN IF s.url # EmptyUrl /\ detectCameraType(s.url) # s.url /\ onUrlChange
       THEN FrameEffect([s1 EXCEPT !.url = detectCameraType(s.url)])
       ELSE [s1 EXCEPT !.tm = [armed |-> TRUE, loading |-> s.ld, fallbackMode |-> s.fb,
                               imgError |-> s.ie]]

\* A handler has produced state s: render, and run the effect when cameraUrl
\* or fallbackMode changed.
CommitFrame(s) ==
    \E r \in {IF s.url # frameUrl \/ s.fb # fallbackMode THEN FrameEffect(s) ELSE s} :
       /\ frameUrl' = r.url
       /\ frameLoading' = r.ld
       /\ frameError' = r.er
       /\ imgError' = r.ie
       /\ fallbackMode' = r.fb
       /\ timeout' = r.tm
       /\ onUrlChange' = onUrlChange

\* the <iframe> or the <img> is rendered
FrameElement == frameUrl # EmptyUrl /\ ~frameError

\* the error panel is rendered
FrameErrorPanel == frameUrl # EmptyUrl /\ frameError

\* onLoad of the <iframe> or the <img>: handleLoad
FrameLoad ==
    /\ FrameElement
    /\ CommitFrame([FrameState EXCEPT !.ld = FALSE, !.er = FALSE])
    /\ lastEvent' = "FrameLoad"
    /\ UNCHANGED <<feedVars, probeVars, hookVars, utilVars, pageVars, platformVars, unattended>>

\* onError of the <iframe> or the <img>: handleError
FrameError ==
    /\ FrameElement
    /\ CommitFrame(IF fallbackMode = "iframe"
                   THEN [FrameState EXCEPT !.fb = "img", !.ld = TRUE]
                   ELSE [FrameState EXCEPT !.ie = TRUE, !.ld = FALSE, !.er = TRUE])
    /\ lastEvent' = "FrameError"
    /\ UNCHANGED <<feedVars, probeVars, hookVars, utilVars, pageVars, platformVars, unattended>>

\* the callback of setTimeout(..., 10000), lines 56-77
LoadTimeout ==
    /\ timeout.armed
    /\ \E s0 \in {[FrameState EXCEPT !.tm = NoTimeout]} :
          CommitFrame(IF ~timeout.loading THEN s0
                      ELSE IF timeout.fallbackMode = "iframe" /\ ~timeout.imgError
                      THEN [s0 EXCEPT !.fb = "img", !.ld = TRUE]
                      ELSE [s0 EXCEPT !.er = TRUE, !.ld = FALSE])
    /\ lastEvent' = "LoadTimeout"
    /\ UNCHANGED <<feedVars, probeVars, hookVars, utilVars, pageVars, platformVars, unattended>>

\* Retry: reloadCamera.  The 300 ms timer only sets the src of the <iframe>.
FrameReload ==
    /\ FrameErrorPanel
    /\ CommitFrame([FrameState EXCEPT !.ld = TRUE, !.er = FALSE, !.ie = FALSE,
                                      !.fb = "iframe"])
    /\ lastEvent' = "FrameReload"
    /\ UNCHANGED <<feedVars, probeVars, hookVars, utilVars, pageVars, platformVars, unattended>>

\* the "Try iframe" button
TryIframe ==
    /\ FrameErrorPanel
    /\ fallbackMode = "img"
    /\ CommitFrame([FrameState EXCEPT !.fb = "iframe"])
    /\ lastEvent' = "TryIframe"
    /\ UNCHANGED <<feedVars, probeVars, hookVars, utilVars, pageVars, platformVars, unattended>>

\* the parent passes another cameraUrl (settings, or handleSelectUrl)
SetFrameUrl ==
    /\ \E u \in FrameUrls \ {frameUrl} : CommitFrame([FrameState EXCEPT !.url = u])
    /\ lastEvent' = "SetFrameUrl"
    /\ UNCHANGED <<feedVars, probeVars, hookVars, utilVars, pageVars, platformVars, unattended>>

\* after the mount: useState initial values, then the effect
FrameInit ==
    /\ onUrlChange \in BOOLEAN
    /\ \E u \in FrameUrls :
       \E r \in {FrameEffect([url |-> u, ld |-> TRUE, er |-> FALSE, ie |-> FALSE,
                              fb |-> "iframe", tm |-> NoTimeout])} :
          /\ frameUrl = r.url
          /\ frameLoading = r.ld
          /\ frameError = r.er
          /\ imgError = r.ie
          /\ fallbackMode = r.fb
          /\ timeout = r.tm

InitFrame ==
    /\ FrameInit
    /\ FeedUnused
    /\ HookUnused
    /\ UtilsUnused
    /\ ImgUntracked
    /\ PageUnused
    /\ liveTracks = {}
    /\ lastEvent = "mount"
    /\ unattended = TRUE

NextFrame ==
    \/ FrameLoad
    \/ FrameError
    \/ LoadTimeout
    \/ FrameReload
    \/ TryIframe
    \/ SetFrameUrl

SpecFrame == InitFrame /\ [][NextFrame]_vars

\* ------------------------------------------------------------------------
\* requestCameraPermission (unnamed/part_000) called directly and by
\* initializeCamera (use-camera.tsx), one call at a time
\* ------------------------------------------------------------------------
RejectionNames == {"NotAllowedError", "NotFoundError", "NotReadableError",
                   "OverconstrainedError", "SecurityError", "AbortError"}

\* the switch on error.name of the catch block
PermissionErrorMessage(name) ==
    CASE name = "NotAllowedError" ->
           "Camera access denied. Please enable camera permissions in your browser settings."
      [] name = "NotFoundError" -> "No camera detected on this device."
      [] name = "NotReadableError" -> "Camera is already in use by another application."
      [] name = "OverconstrainedError" -> "Camera doesn't meet the required constraints."
      [] name = "SecurityError" -> "Camera access requires a secure connection (HTTPS)."
      [] OTHER -> "Camera error"

PermissionFailed(caller, message) ==
    [NoPermissionCall EXCEPT !.pc = "done", !.caller = caller, !.error = message]

\* requestCameraPermission up to `await getUserMedia`
requestCameraPermission(caller) ==
    IF ~cameraSupported
    THEN PermissionFailed(caller, "Your browser doesn't support camera access")
    ELSE IF ~env.secure
    THEN PermissionFailed(caller, "Camera access requires HTTPS")
    ELSE [NoPermissionCall EXCEPT !.pc = "gum", !.caller = caller]

\* initializeCamera after requestCameraPermission returned r
initializeCameraAfter(h, r) ==
    IF ~r.success
    THEN [h EXCEPT !.er = r.error, !.ld = FALSE, !.hp = FALSE]
    ELSE IF Len(r.devices) > 0
    THEN initializeCameraDone(h, r.devices)
    ELSE [h EXCEPT !.hp = TRUE, !.er = "No cameras found", !.ld = FALSE]

\* the value identifyCameras returns for devs
Identified(devs) ==
    [called |-> TRUE,
     devices |-> devs,
     frontCamera |-> identifyCameras(devs).frontCamera,
     backCamera |-> identifyCameras(devs).backCamera,
     otherCameras |-> identifyCameras(devs).otherCameras]

\* the caller of requestCameraPermission takes its result r
PermissionReturns(r) ==
    /\ permission' = r
    /\ AssignHook(IF r.caller = "initializeCamera" /\ r.pc = "done"
                  THEN initializeCameraAfter(HookState, r)
                  ELSE HookState)
    /\ identified' = IF r.caller = "initializeCamera" /\ r.success /\ Len(r.devices) > 0
                     THEN Identified(r.devices)
                     ELSE identified

\* a component calls requestCameraPermission()
CallRequestCameraPermission ==
    /\ UNCHANGED mountedRef
    /\ permission.pc \in {"idle", "done"}
    /\ PermissionReturns(requestCameraPermission("direct"))
    /\ lastEvent' = "requestCameraPermission"
    /\ UNCHANGED <<feedVars, probeVars, pageVars, frameVars, cameraSupported, urlArg, urlResult, unattended>>

\* the hook calls initializeCamera()
CallInitializeCamera ==
    /\ UNCHANGED mountedRef
    /\ permission.pc \in {"idle", "done"}
    /\ IF ~env.secure
       THEN /\ AssignHook([HookState EXCEPT
                              !.er = "Camera access requires a secure context (HTTPS)",
                              !.ld = FALSE])
            /\ permission' = NoPermissionCall
            /\ identified' = identified
       ELSE \E r \in {requestCameraPermission("initializeCamera")} :
               /\ permission' = r
               /\ AssignHook(IF r.pc = "done"
                             THEN initializeCameraAfter(HookState, r)
                             ELSE [HookState EXCEPT !.ld = TRUE, !.er = NoError])
               /\ identified' = identified
    /\ lastEvent' = "initializeCamera"
    /\ UNCHANGED <<feedVars, probeVars, pageVars, frameVars, cameraSupported, urlArg, urlResult, unattended>>

\* getUserMedia resolves: the tracks of the test stream are stopped at once
TestStreamGranted ==
    /\ UNCHANGED mountedRef
    /\ permission.pc = "gum"
    /\ HasFresh(liveTracks)
    /\ \E stream \in {Fresh(liveTracks)} :
          AssignHook([HookState EXCEPT !.lv = (liveTracks \cup {stream}) \ {stream}])
    /\ permission' = [permission EXCEPT !.pc = "enum"]
    /\ lastEvent' = "TestStreamGranted"
    /\ UNCHANGED <<feedVars, probeVars, pageVars, frameVars, cameraSupported, identified, urlArg, urlResult,
                   unattended>>

\* getUserMedia rejects
TestStreamDenied ==
    /\ UNCHANGED mountedRef
    /\ permission.pc = "gum"
    /\ \E name \in RejectionNames :
          PermissionReturns(PermissionFailed(permission.caller, PermissionErrorMessage(name)))
    /\ lastEvent' = "TestStreamDenied"
    /\ UNCHANGED <<feedVars, probeVars, pageVars, frameVars, cameraSupported, urlArg, urlResult, unattended>>

\* enumerateDevices resolves with the video inputs of the platform
VideoInputsEnumerated ==
    /\ UNCHANGED mountedRef
    /\ permission.pc = "enum"
    /\ PermissionReturns(
          IF Len(env.devices) = 0
          THEN PermissionFailed(permission.caller, "No camera devices detected")
          ELSE [permission EXCEPT !.pc = "done", !.success = TRUE, !.devices = env.devices])
    /\ lastEvent' = "VideoInputsEnumerated"
    /\ UNCHANGED <<feedVars, probeVars, pageVars, frameVars, cameraSupported, urlArg, urlResult, unattended>>

DetectionEnvironments ==
    {[devices |-> d, deviceType |-> ty, secure |-> sec, autoStart |-> c.autoStart,
      preferredPosition |-> c.preferredPosition, video |-> c.video, native |-> FALSE] :
        d \in DetectionDeviceLists, ty \in {"mobile", "desktop"}, sec \in BOOLEAN,
        c \in {k \in Consumers : ~k.autoStart}}

InitDetection ==
    /\ HookMounted(DetectionEnvironments)
    /\ cameraSupported \in BOOLEAN
    /\ permission = NoPermissionCall
    /\ identified = NotIdentified
    /\ urlArg = EmptyUrl
    /\ urlResult = NoUrlResult
    /\ ImgUntracked
    /\ PageUnused
    /\ FeedUnused
    /\ FrameUnused
    /\ liveTracks = {}
    /\ lastEvent = "mount"
    /\ unattended = TRUE

NextDetection ==
    \/ CallRequestCameraPermission
    \/ CallInitializeCamera
    \/ TestStreamGranted
    \/ TestStreamDenied
    \/ VideoInputsEnumerated

SpecDetection == InitDetection /\ [][NextDetection]_vars

\* ------------------------------------------------------------------------
\* formatCameraUrl applied to URLs typed by the user (utils/cameraUtils.ts)
\* ------------------------------------------------------------------------
\* the user types an address with or without a scheme, and with or without a
\* path; a URL is the sequence of its parts, as url.split('/') returns them
UrlSchemes == {<<>>, <<"http:", "">>, <<"https:", "">>}
UrlHosts == {"192.168.1.50:8080", "camera.local"}
UrlPathParts == {"", "video", "stream"}
UrlPaths == UNION {[1..n -> UrlPathParts] : n \in 0..MaxParts}
UrlArgs == {EmptyUrl} \cup {sch \o <<host>> \o path :
                               sch \in UrlSchemes, host \in UrlHosts, path \in UrlPaths}

\* formatCameraUrl(url), and formatCameraUrl of what it returned
FormatCameraUrl ==
    /\ ~urlResult.called
    /\ urlResult' = [called |-> TRUE,
                     once |-> formatCameraUrl(urlArg),
                     twice |-> formatCameraUrl(formatCameraUrl(urlArg))]
    /\ lastEvent' = "formatCameraUrl"
    /\ UNCHANGED <<feedVars, probeVars, pageVars, hookVars, frameVars, platformVars, unattended,
                   cameraSupported, permission, identified, urlArg>>

InitUrl ==
    /\ urlArg \in UrlArgs
    /\ urlResult = NoUrlResult
    /\ cameraSupported = TRUE
    /\ permission = NoPermissionCall
    /\ identified = NotIdentified
    /\ ImgUntracked
    /\ PageUnused
    /\ FeedUnused
    /\ HookUnused
    /\ FrameUnused
    /\ liveTracks = {}
    /\ lastEvent = "mount"
    /\ unattended = TRUE

NextUrl == FormatCameraUrl

SpecUrl == InitUrl /\ [][NextUrl]_vars

\* ------------------------------------------------------------------------
\* JoystickControl (src/src/components/JoystickControl.tsx)
\* ------------------------------------------------------------------------
\* React batches the state updates of one event and runs the effect with the
\* commit, so a step is the handler, the re-render and the effect.  The
\* effect depends on [active] alone: the handlers on the DOM are those of the
\* render in which active changed last (the variable listeners).
size == 150
knobSize == size \div 3
maxDistance == (size - knobSize) \div 2

\* where the pointer is, relative to the centre of the joystick
Offsets == {-60, -30, -10, 0, 10, 30, 60}
Pointers == [dx : Offsets, dy : Offsets]

\* distance > maxDistance * 0.3
OutsideDeadZone(p) == 100 * (p.dx * p.dx + p.dy * p.dy) > 9 * maxDistance * maxDistance

\* the 90-degree sector of angle = atan2(deltaY, deltaX); y grows downwards
direction(p) ==
    IF ~OutsideDeadZone(p) THEN "stop"
    ELSE IF p.dx > 0 /\ p.dy > -p.dx /\ p.dy <= p.dx THEN "right"
    ELSE IF p.dy > 0 /\ p.dx < p.dy /\ p.dx >= -p.dy THEN "down"
    ELSE IF p.dx < 0 /\ ((p.dy >= 0 /\ p.dy < -p.dx) \/ (p.dy < 0 /\ p.dy >= p.dx)) THEN "left"
    ELSE "up"

\* moveKnob in the handlers of render c: the knob follows the pointer, held
\* at maxDistance from the centre, and the direction is sent when it differs
\* from the lastDirection of that render
moveKnob(c, p) ==
    [knob |-> [dx |-> p.dx, dy |-> p.dy,
               clamped |-> p.dx * p.dx + p.dy * p.dy > maxDistance * maxDistance],
     out |-> IF direction(p) # c.lastDirection THEN direction(p) ELSE NoCommand]

\* the re-render after an event and the effect with dependencies [active]
JoystickCommit(ac, out, kn, event) ==
    /\ active' = ac
    /\ lastDirection' = IF out = NoCommand THEN lastDirection ELSE out
    /\ knob' = kn
    /\ listeners' = IF ac # active
                    THEN [active |-> ac, lastDirection |-> lastDirection']
                    ELSE listeners
    /\ lastSent' = IF out = NoCommand THEN lastSent ELSE out
    /\ emitted' = (out # NoCommand)
    /\ lastEvent' = event
    /\ UNCHANGED <<feedVars, hookVars, frameVars, utilVars, probeVars, scheduleVars,
                   platformVars, unattended>>

\* mousedown or touchstart on the joystick: handleStart
MouseDown(p) ==
    /\ JoystickCommit(TRUE, moveKnob(listeners, p).out, moveKnob(listeners, p).knob,
                      "mousedown")
    /\ dragSent' = \/ active /\ dragSent
                   \/ moveKnob(listeners, p).out \notin {NoCommand, "stop"}

\* mousemove or touchmove anywhere in the window: handleMove
MouseMove(p) ==
    IF listeners.active
    THEN /\ JoystickCommit(active, moveKnob(listeners, p).out, moveKnob(listeners, p).knob,
                           "mousemove")
         /\ dragSent' = \/ dragSent
                        \/ moveKnob(listeners, p).out \notin {NoCommand, "stop"}
    ELSE /\ JoystickCommit(active, NoCommand, knob, "mousemove")
         /\ UNCHANGED dragSent

\* handleEnd without its onMove("stop")
handleEndWithoutStop(c) == NoCommand

\* mouseup or touchend anywhere in the window: handleEnd
handleEnd(c) == IF c.active THEN "stop" ELSE NoCommand

MouseUp ==
    /\ JoystickCommit(IF listeners.active THEN FALSE ELSE active,
                      handleEnd(listeners),
                      IF listeners.active THEN KnobCentre ELSE knob,
                      "mouseup")
    /\ UNCHANGED dragSent

\* Index re-renders and passes a new onMove: active is unchanged, the effect
\* does not run
ParentRender ==
    /\ JoystickCommit(active, NoCommand, knob, "render")
    /\ UNCHANGED dragSent

InitJoystick ==
    /\ JoystickInit
    /\ ScheduleUnused
    /\ FeedUnused
    /\ HookUnused
    /\ FrameUnused
    /\ UtilsUnused
    /\ ImgUntracked
    /\ liveTracks = {}
    /\ lastEvent = "mount"
    /\ unattended = TRUE

NextJoystick ==
    \/ \E p \in Pointers : MouseDown(p)
    \/ \E p \in Pointers : MouseMove(p)
    \/ MouseUp
    \/ ParentRender

SpecJoystick == InitJoystick /\ [][NextJoystick]_vars

\* ------------------------------------------------------------------------
\* The medicine schedule check of Index (src/src/pages/Index.tsx)
\* ------------------------------------------------------------------------
\* setInterval(..., 30000), restarted by the effect whenever scheduledMedicines
\* changes.  The clock advances in ticks of IntervalMs / TicksPerCheck.
IntervalMs == 30000
MinuteMs == 60000
TickMs == IntervalMs \div TicksPerCheck
LastTick == (MaxMinutes * MinuteMs) \div TickMs

\* `${hours padded}:${minutes padded}` of new Date(), as the pair it prints
currentTime(t) ==
    <<((t * TickMs) \div (60 * MinuteMs)) % 24, ((t * TickMs) \div MinuteMs) % 60>>

\* the medicines of the list, in order, that are not yet in it
Unscheduled == {m \in MedicinePool : \A i \in 1..Len(scheduledMedicines) : scheduledMedicines[i] # m}

\* the list without its entry at index i
Without(list, i) == [k \in 1..(Len(list) - 1) |-> IF k < i THEN list[k] ELSE list[k + 1]]

\* the entries whose time is the current time
Due(t) == {scheduledMedicines[i] : i \in {k \in 1..Len(scheduledMedicines) :
                                             scheduledMedicines[k].time = currentTime(t)}}

ScheduleFrame ==
    UNCHANGED <<feedVars, hookVars, frameVars, utilVars, probeVars, joystickVars,
                platformVars, unattended>>

\* time passes while the interval is not due; the observation counts start
\* again when the minute changes
ClockTick ==
    /\ remaining > 0
    /\ now < LastTick
    /\ now' = now + 1
    /\ remaining' = remaining - 1
    /\ notified' = IF currentTime(now') # currentTime(now) THEN NoneYet ELSE notified
    /\ opened' = IF currentTime(now') # currentTime(now) THEN NoneYet ELSE opened
    /\ lastEvent' = "ClockTick"
    /\ UNCHANGED scheduledMedicines
    /\ ScheduleFrame

\* the interval callback: every medicine whose time is the current time is
\* notified and its drawer opened
ScheduleCheck ==
    /\ remaining = 0
    /\ remaining' = TicksPerCheck
    /\ notified' = [m \in MedicinePool |-> notified[m] + IF m \in Due(now) THEN 1 ELSE 0]
    /\ opened' = [m \in MedicinePool |-> opened[m] + IF m \in Due(now) THEN 1 ELSE 0]
    /\ lastEvent' = "ScheduleCheck"
    /\ UNCHANGED <<scheduledMedicines, now>>
    /\ ScheduleFrame

\* handleScheduleMedicine: the list changes, the effect clears the interval
\* and sets a new one
HandleScheduleMedicine ==
    /\ Len(scheduledMedicines) < MaxMedicines
    /\ \E m \in Unscheduled : scheduledMedicines' = Append(scheduledMedicines, m)
    /\ remaining' = TicksPerCheck
    /\ lastEvent' = "HandleScheduleMedicine"
    /\ UNCHANGED <<now, notified, opened>>
    /\ ScheduleFrame

\* handleDeleteMedicine(index)
HandleDeleteMedicine ==
    /\ \E i \in 1..Len(scheduledMedicines) :
          scheduledMedicines' = Without(scheduledMedicines, i)
    /\ remaining' = TicksPerCheck
    /\ lastEvent' = "HandleDeleteMedicine"
    /\ UNCHANGED <<now, notified, opened>>
    /\ ScheduleFrame

\* the page after mount, at any moment of the first minute, with the list
\* that was saved in localStorage
InitSchedule ==
    /\ scheduledMedicines \in {<<>>} \cup {<<m>> : m \in MedicinePool}
    /\ now \in 0..(MinuteMs \div TickMs - 1)
    /\ remaining = TicksPerCheck
    /\ notified = NoneYet
    /\ opened = NoneYet
    /\ JoystickInit
    /\ FeedUnused
    /\ HookUnused
    /\ FrameUnused
    /\ UtilsUnused
    /\ ImgUntracked
    /\ liveTracks = {}
    /\ lastEvent = "mount"
    /\ unattended = TRUE

NextSchedule ==
    \/ ClockTick
    \/ ScheduleCheck
    \/ HandleScheduleMedicine
    \/ HandleDeleteMedicine

SpecSchedule == InitSchedule /\ [][NextSchedule]_vars

\* ------------------------------------------------------------------------
\* Claims about CameraFeed.tsx (checked under SpecFeed)
\* ------------------------------------------------------------------------

\* C2: whenever the remote source is selected (usingDeviceCamera = FALSE), no
\* device-camera stream acquired by the component has live tracks, late
\* getUserMedia resolutions included.
C2_RemoteSourceHoldsNoDeviceStream ==
    ~usingDeviceCamera => liveTracks = {}

\* C3: after any sequence of URL loads, probe results, Mode-button changes,
\* CORS-bypass toggles, reloads and source toggles, every entry of
\* retryAttempts is at most maxRetries.
C3_RetryAttemptsWithinCap ==
    \A m \in VideoMode : retryAttempts[m] <= maxRetries

\* C4: with every remote probe failing and no user action, the feed has ended
\* its probing only in the exhausted state, the aggregate "connection" error.
C4_UnattendedFailuresEndExhausted ==
    (/\ unattended
     /\ cameraUrl # ""
     /\ ~ImgRendered(feedError, videoMode, cameraUrl, usingDeviceCamera))
        => feedError = "connection"

\* C5: a probe failure increments the counter of the mode that failed; under
\* the cap the same mode is probed again, at the cap the feed advances to the
\* next ladder mode, whose counter is then zero.
C5_FailureCountsTheFailedMode ==
    [][(lastEvent' = "ProbeError" /\ retryAttempts[videoMode] < maxRetries)
          => /\ retryAttempts'[videoMode] = retryAttempts[videoMode] + 1
             /\ IF retryAttempts'[videoMode] < maxRetries
                THEN videoMode' = videoMode
                ELSE /\ videoMode' = nextModeOf(videoMode)
                     /\ retryAttempts'[videoMode'] = 0]_vars

\* the events a user (or the parent, with a new URL) triggers
FeedUserActions == {"ToggleCameraSource", "ReloadCamera", "CorsBypassToggle", "ModeButton",
                    "HandleDeviceChange", "SetCameraUrl"}

\* the errors the remote ladder raises: handleError and switchToNextMode
LadderErrors == {"error", "connection"}

\* C11: once the remote feed is in the error state, a step that is not a
\* user-triggered action issues no probe (the <img> stays unrendered) and
\* changes neither videoMode nor a retry counter.
C11_RemoteErrorIsTerminal ==
    [][(/\ feedError \in LadderErrors
        /\ ~usingDeviceCamera
        /\ cameraUrl # ""
        /\ lastEvent' \notin FeedUserActions)
          => /\ videoMode' = videoMode
             /\ retryAttempts' = retryAttempts
             /\ ~ImgRendered(feedError', videoMode', cameraUrl', usingDeviceCamera')]_vars


\* C12: the reported source is unambiguous: usingDeviceCamera is true exactly
\* when videoMode is 'webcam'.
C12_SourceMatchesMode ==
    usingDeviceCamera <=> (videoMode = "webcam")

\* the ladder handed off to the device camera after the img probe failed
C12_Witness ==
    /\ lastEvent = "ProbeError"
    /\ usingDeviceCamera
    /\ videoMode = "webcam"

\* C13 (CameraFeed): loading and error are never both set.
C13_FeedLoadingExcludesError ==
    ~(loading /\ feedError # NoError)

\* what the component waits for without a bound of its own: the user, the
\* parent, and the load / error / loadedmetadata events of its elements
FeedExternalEvents == FeedUserActions \cup {"ProbeLoad", "ProbeError", "LoadedMetadata"}

\* C14: the feed never hangs in loading: once no user action and no element
\* event occurs any more, a feed that is loading eventually stops loading.
C14_LoadingEnds ==
    (<>[][lastEvent' \notin FeedExternalEvents]_vars)
        => ((loading /\ ~NoUrlScreen(cameraUrl, usingDeviceCamera))
               ~> (~loading \/ NoUrlScreen(cameraUrl, usingDeviceCamera)))

\* C15: every transition of the feed into an error state calls onError
\* exactly once.
C15_ErrorCallsOnError ==
    [][(feedError' # NoError /\ feedError' # feedError) => onErrorCalls' = 1]_vars

\* C16: toggling the CORS-bypass switch sets every retry counter to 0, sets
\* videoMode to 'direct', clears the error and sets loading.
C16_CorsToggleRestartsLadder ==
    [][lastEvent' = "CorsBypassToggle"
          => /\ retryAttempts' = ZeroAttempts
             /\ videoMode' = "direct"
             /\ feedError' = NoError
             /\ loading']_vars

\* the switch was turned off from the error panel and the ladder restarted
C16_Witness ==
    /\ lastEvent = "CorsBypassToggle"
    /\ ~useCorsBypass
    /\ videoMode = "direct"
    /\ retryAttempts = ZeroAttempts
    /\ loading

\* C17: while the remote source is selected, a new camera URL or Retry
\* (reloadCamera) resets all retry counters to 0, sets videoMode to 'direct',
\* clears the error and sets loading, whatever counters and mode were before.
C17_RemoteReloadRestartsLadder ==
    [][(lastEvent' \in {"ReloadCamera", "SetCameraUrl"} /\ ~usingDeviceCamera)
          => /\ retryAttempts' = ZeroAttempts
             /\ videoMode' = "direct"
             /\ feedError' = NoError
             /\ loading']_vars

\* a new URL arrived on the remote source and the ladder restarted
C17_Witness ==
    /\ lastEvent = "SetCameraUrl"
    /\ ~usingDeviceCamera
    /\ cameraUrl # ""
    /\ videoMode = "direct"
    /\ retryAttempts = ZeroAttempts
    /\ feedError = NoError
    /\ loading

\* the steps of the fallback order direct, mjpeg, img, webcam
LadderSteps == {<<"direct", "mjpeg">>, <<"mjpeg", "img">>, <<"img", "webcam">>}

\* C18: every automatic mode change moves from the current mode to its
\* immediate successor in the order direct, mjpeg, img, webcam; no mode is
\* skipped, and the ladder never moves backward or wraps around.
C18_AutomaticChangeIsOneStepDown ==
    [][(lastEvent' \notin FeedUserActions /\ videoMode' # videoMode)
          => <<videoMode, videoMode'>> \in LadderSteps]_vars

\* a failed probe has moved the ladder from mjpeg to img
C18_Witness ==
    /\ lastEvent = "ProbeError"
    /\ videoMode = "img"
    /\ retryAttempts["img"] = 1
    /\ retryAttempts["mjpeg"] = 1
    /\ feedError = NoError

\* C26: the stream that getDevices obtains only to raise the permission
\* prompt is released before the enumeration: the step on which its
\* getUserMedia resolves leaves no track live that was not live before.
C26_PermissionStreamIsReleased ==
    [][lastEvent' = "GetDevicesGranted" => liveTracks' \subseteq liveTracks]_vars

\* ------------------------------------------------------------------------
\* Claims about the requests of the <img> (checked under SpecProbe)
\* ------------------------------------------------------------------------
\* C32: img mode alone probes continuously: when a display interval passes
\* in img mode the <img> makes a new request, with nothing else changed; in
\* direct and mjpeg mode the <img> makes exactly one request per entry into
\* the mode, and its URL carries no cache-busting token.
C32_OnlyImgModePolls ==
    [][/\ (lastEvent' = "DisplayInterval" /\ videoMode = "img" /\ imgSrc # NoSrc)
            => probes' > probes
       /\ (videoMode' \in {"direct", "mjpeg"} /\ imgSrc' # NoSrc)
            => probes' = 1 /\ ~imgSrc'.token]_vars

\* ------------------------------------------------------------------------
\* Claims about the load timeout of CameraFeed (checked under SpecFrame)
\* ------------------------------------------------------------------------
FrameUserActions == {"FrameReload", "TryIframe", "SetFrameUrl"}

\* C19: after a probe has succeeded (loading false, no error) the feed stays
\* in the displaying state of that mode until a probe failure or a user
\* action; a load timeout armed before the success neither raises an error
\* nor changes the fallback mode.
C19_DisplayingIsStable ==
    [][(/\ frameUrl # EmptyUrl
        /\ ~frameLoading
        /\ ~frameError
        /\ lastEvent' \notin FrameUserActions \cup {"FrameError"})
          => /\ ~frameLoading'
             /\ ~frameError'
             /\ fallbackMode' = fallbackMode]_vars

\* ------------------------------------------------------------------------
\* Claims about cameraDetection (checked under SpecDetection)
\* ------------------------------------------------------------------------
SecureContextErrors == {"Camera access requires HTTPS",
                        "Camera access requires a secure context (HTTPS)"}

\* C25: in an insecure context requestCameraPermission / initializeCamera
\* fails with the secure-context error without calling getUserMedia; a
\* platform rejection yields a failure; an enumeration with zero video inputs
\* yields the no-devices failure, never success with an empty list.
C25_PermissionFailures ==
    /\ ~env.secure
          => /\ permission.pc \notin {"gum", "enum"}
             /\ permission.pc = "done"
                   => ~permission.success /\ permission.error \in SecureContextErrors
             /\ lastEvent = "initializeCamera"
                   => error \in SecureContextErrors /\ ~hasPermission
    /\ lastEvent = "TestStreamDenied"
          => /\ ~permission.success
             /\ permission.error # "none"
             /\ permission.caller = "initializeCamera" => error # NoError /\ ~hasPermission
    /\ permission.success => Len(permission.devices) > 0
    /\ (lastEvent = "VideoInputsEnumerated" /\ Len(env.devices) = 0)
          => ~permission.success /\ permission.error = "No camera devices detected"

\* the list identifyCameras was called with
IdentifiedList == identified.devices

\* C29: identifyCameras classifies by label keyword: every device whose label
\* has a front keyword is returned as frontCamera, every device whose label has
\* a back keyword and no front keyword is returned as backCamera, and
\* otherCameras holds exactly the devices that match neither; the list of one
\* front-labelled and one back-labelled device gives those two and no others.
C29_ClassifiedByLabel ==
    identified.called
       => /\ \A i \in 1..Len(IdentifiedList) :
                /\ IsFrontLabel(IdentifiedList[i].label)
                      => identified.frontCamera = IdentifiedList[i]
                /\ (IsBackLabel(IdentifiedList[i].label) /\ ~IsFrontLabel(IdentifiedList[i].label))
                      => identified.backCamera = IdentifiedList[i]
          /\ identified.otherCameras
                = SelectSeq(IdentifiedList,
                            LAMBDA d : ~IsFrontLabel(d.label) /\ ~IsBackLabel(d.label))
          /\ IdentifiedList = <<FrontCam, BackCam>>
                => /\ identified.frontCamera = FrontCam
                   /\ identified.backCamera = BackCam
                   /\ identified.otherCameras = <<>>

\* C30: for a list of a single device whose label has no keyword,
\* identifyCameras returns that device as frontCamera and no backCamera, and
\* the hook's hasFrontAndBackCamera is false, on mobile and on desktop.
C30_SingleUnlabelledDeviceIsFront ==
    (/\ identified.called
     /\ Len(IdentifiedList) = 1
     /\ ~IsFrontLabel(IdentifiedList[1].label)
     /\ ~IsBackLabel(IdentifiedList[1].label))
       => /\ identified.frontCamera = IdentifiedList[1]
          /\ identified.backCamera = NoDevice
          /\ ~hasFrontAndBackCamera

\* initializeCamera has classified the single 'usb video' device of a phone
C30_Witness ==
    /\ identified.called
    /\ env.deviceType = "mobile"
    /\ IdentifiedList = <<PlainCam>>
    /\ devices = <<PlainCam>>
    /\ identified.frontCamera = PlainCam
    /\ ~hasFrontAndBackCamera

\* no label of the list holds a keyword of identifyCameras
NoLabelMatches(list) ==
    \A i \in 1..Len(list) : ~IsFrontLabel(list[i].label) /\ ~IsBackLabel(list[i].label)

\* C31: when no device matches a label keyword and the list has two or more
\* devices, identifyCameras returns the first device as backCamera and the
\* second as frontCamera, on every device type.
C31_GuessIsFirstBackSecondFront ==
    (identified.called /\ Len(IdentifiedList) >= 2 /\ NoLabelMatches(IdentifiedList))
       => /\ identified.backCamera = IdentifiedList[1]
          /\ identified.frontCamera = IdentifiedList[2]

\* the parts of the result of identifyCameras that hold device d
PartsHolding(d) ==
    (IF identified.frontCamera = d THEN {"frontCamera"} ELSE {})
       \cup (IF identified.backCamera = d THEN {"backCamera"} ELSE {})
       \cup (IF \E i \in 1..Len(identified.otherCameras) : identified.otherCameras[i] = d
             THEN {"otherCameras"} ELSE {})

\* C36: identifyCameras partitions its input: every device of the list is in
\* exactly one of frontCamera, backCamera and otherCameras.
C36_ResultPartitionsTheList ==
    identified.called
       => \A i \in 1..Len(IdentifiedList) : Cardinality(PartsHolding(IdentifiedList[i])) = 1

\* ------------------------------------------------------------------------
\* Claims about formatCameraUrl (checked under SpecUrl)
\* ------------------------------------------------------------------------
\* C27: formatCameraUrl is idempotent: applying it to its own result returns
\* that result, for every input.
C27_FormatIsIdempotent ==
    urlResult.called => urlResult.twice = urlResult.once

\* C28: for every non-empty input formatCameraUrl returns scheme, host and
\* port only, without a path ("192.168.1.50:8080/video" gives
\* "http://192.168.1.50:8080"); the empty input gives the empty string.
C28_FormatReturnsBaseUrl ==
    urlResult.called
       => /\ urlArg = EmptyUrl => urlResult.once = EmptyUrl
          /\ urlArg # EmptyUrl => StartsWithScheme(urlResult.once) /\ Len(urlResult.once) = 3
          /\ urlArg = <<"192.168.1.50:8080", "video">>
                => urlResult.once = <<"http:", "", "192.168.1.50:8080">>

\* ------------------------------------------------------------------------
\* Claims about useCamera, use-camera.tsx (checked under SpecHook)
\* ------------------------------------------------------------------------

\* the events that are a consumer's request, not the completion of a call
HookRequests == {"mount", "StartCamera", "StopCamera", "SwitchCamera", "SwitchCameraFailed",
                 "Unmount"}

\* the events in which a startCamera ends in failure
StartFailures == {"UserMediaDenied", "VideoElementMissing", "NoVideoTracks", "PlayFailed",
                  "VideoError", "Timeout"}

\* no call is suspended and no handler of a call can still run
HookQuiescent ==
    /\ \A t \in CallIds : calls[t].pc \in {"idle", "returned"}
    /\ playing = {}
    /\ timers = {}
    /\ (video.owner = 0 \/ video.srcObject \notin liveTracks)

\* C1: for every interleaving of start requests at most one acquired stream has
\* live tracks, and a live stream is the one streamRef references.
C1_OnlyTheReferencedStreamIsLive ==
    liveTracks \subseteq {streamRef}

\* C6: after stopCamera the late completion of a start that was suspended is
\* discarded: streamRef stays null and isActive stays false.
C6_LateCompletionAfterStopDiscarded ==
    [][(lastEvent = "StopCamera" /\ lastEvent' \notin HookRequests)
          => (streamRef' = NoStream /\ ~isActive')]_vars

\* C7: whenever a startCamera ends in failure, no stream acquired by that
\* start is left with live tracks.
C7_FailedStartLeavesNoLiveStream ==
    lastEvent \in StartFailures => lastStream \notin liveTracks

\* C8: after the component has unmounted and every suspended call has run to
\* its end, no stream acquired by the hook has live tracks.
C8_NoLiveStreamAfterUnmount ==
    (~mountedRef /\ HookQuiescent) => liveTracks = {}

\* C13 (useCamera): exactly one of isLoading, isActive, error # null is true.
C13_HookExactlyOneStatus ==
    Cardinality({k \in {"loading", "active", "error"} :
                    \/ k = "loading" /\ isLoading
                    \/ k = "active" /\ isActive
                    \/ k = "error" /\ error # NoError}) = 1

\* C20: when startCamera runs while a stream is live, every track of that
\* stream is stopped and streamRef cleared before the new getUserMedia is
\* requested, and when the start completes successfully exactly one stream
\* has live tracks.  Completions of a start whose stream was stopped or
\* replaced in the meantime are left out.
C20_RestartLeavesOneStream ==
    [][\A t \in CallIds :
          /\ (calls[t].pc # "gum" /\ calls'[t].pc = "gum" /\ calls'[t].hadStream)
                => (streamRef' = NoStream /\ streamRef \notin liveTracks')
          /\ (/\ lastEvent' = "PlaySucceeded"
              /\ t \in playing \ playing'
              /\ calls[t].hadStream
              /\ calls[t].stream = streamRef')
                => Cardinality(liveTracks') = 1]_vars

\* C21: stopCamera is idempotent and safe in every state: after it returns
\* streamRef is null, every track of the stream it held is stopped and isActive
\* is false, and a second call changes no state.
C21_StopCameraReleasesAndIsIdempotent ==
    [][/\ lastEvent' = "StopCamera"
          => /\ streamRef' = NoStream
             /\ streamRef \notin liveTracks'
             /\ ~isActive'
       /\ (lastEvent = "StopCamera" /\ lastEvent' = "StopCamera")
          => UNCHANGED <<hookVars, liveTracks>>]_vars

\* stopCamera has released the stream the <video> still shows
C21_Witness ==
    /\ lastEvent = "StopCamera"
    /\ streamRef = NoStream
    /\ ~isActive
    /\ video.srcObject # NoStream
    /\ video.srcObject \notin liveTracks

\* the camera of the facing cameraPosition names, as identifyCameras classified it
FacingCamera(position, devs) ==
    IF position = "front" THEN identifyCameras(devs).frontCamera
    ELSE identifyCameras(devs).backCamera

\* C22: when switchCamera is called while a session is active and a camera of
\* the opposite facing was classified, the session is restarted bound to that
\* opposite device: cameraPosition is the toggled value and the stream that is
\* requested, and currentDevice, belong to the opposite device.
C22_SwitchRestartsOnOppositeDevice ==
    [][\A t \in CallIds :
          (/\ lastEvent' = "SwitchCamera"
           /\ isActive
           /\ calls[t].pc = "idle"
           /\ calls'[t].pc = "gum")
             => /\ cameraPosition' # cameraPosition
                /\ currentDevice' = FacingCamera(cameraPosition', devices)
                /\ calls'[t].dev = FacingCamera(cameraPosition', devices)]_vars

Toggled(position) == IF position = "front" THEN "back" ELSE "front"

\* C23: when no camera of the opposite facing is available, switchCamera
\* fails explicitly instead of restarting, on every device type.  The case
\* of a device list that was never enumerated is left out.
C23_SwitchWithoutOppositeFails ==
    [][(/\ lastEvent' \in {"SwitchCamera", "SwitchCameraFailed"}
        /\ Len(devices) > 0
        /\ FacingCamera(Toggled(cameraPosition), devices) = NoDevice)
          => lastEvent' = "SwitchCameraFailed"]_vars

\* C24: a startCamera whose first getUserMedia (with the requested facing or
\* device) is rejected makes exactly one more attempt with {video: true}; the
\* start fails only when both attempts are rejected.
C24_RejectedAttemptIsRetriedOnce ==
    [][\A t \in CallIds :
          (/\ lastEvent' \in {"UserMediaDenied", "UserMediaFallback"}
           /\ calls[t].pc = "gum"
           /\ calls'[t].pc # "gum")
             => /\ calls'[t].pc = "gum2"
                /\ error' = error]_vars

\* C33: where the platform grants permission and lists a video device, a
\* startCamera called while hasPermission is false goes on to acquire a
\* stream once initializeCamera has completed; it does not fail with 'No
\* camera available' or 'No camera device selected'.
C33_FirstStartProceedsToAcquisition ==
    [][\A t \in CallIds :
          (/\ lastEvent' = "DevicesEnumerated"
           /\ calls[t].pc = "permEnum"
           /\ calls[t].phase = "start"
           /\ calls'[t].pc # "permEnum")
             => /\ calls'[t].pc = "gum"
                /\ error' \notin {"No camera available", "No camera device selected"}]_vars

\* C35: after every step of useCamera, failed calls included, cameraPosition
\* agrees with the classification of currentDevice whenever currentDevice is
\* set: it is 'front' exactly when currentDevice is the identified front
\* camera and 'back' exactly when it is the identified back camera; and a
\* switchCamera that fails leaves cameraPosition as it was.
C35_PositionAgreesWithCurrentDevice ==
    [][/\ currentDevice' # NoDevice
            => /\ cameraPosition' = "front"
                    <=> currentDevice' = identifyCameras(devices').frontCamera
               /\ cameraPosition' = "back"
                    <=> currentDevice' = identifyCameras(devices').backCamera
       /\ lastEvent' = "SwitchCameraFailed" => cameraPosition' = cameraPosition]_vars

\* ------------------------------------------------------------------------
\* Claims about NativeCamera (checked under SpecNative)
\* ------------------------------------------------------------------------
\* C34: after a start of the device camera has failed (an error is set),
\* NativeCamera does not start the camera again on its own: no step in that
\* state makes the auto-init effect call initializeCamera(); only 'Try Again'
\* issues a new startCamera.
C34_NoAutomaticStartAfterFailure ==
    [][error # NoError => ~autoInit']_vars

\* ------------------------------------------------------------------------
\* Claims about the readiness timeout (checked under SpecHookRev)
\* ------------------------------------------------------------------------

\* C9: a readiness timeout armed by one startCamera never takes effect after
\* that start's session has been stopped or replaced: a timer that fires when
\* streamRef no longer references the stream of its own start changes neither
\* the error, nor the live tracks, nor streamRef, isActive or isLoading.
C9_StaleTimeoutHasNoEffect ==
    [][(lastEvent' = "Timeout" /\ lastStream' # streamRef)
          => /\ error' = error
             /\ liveTracks' = liveTracks
             /\ streamRef' = streamRef
             /\ isActive' = isActive
             /\ isLoading' = isLoading]_vars

C37_MoveSendsOnlyChangedDirection ==
    [][(lastEvent' = "mousemove" /\ emitted' /\ lastSent # NoCommand)
          => lastSent' # lastSent]_vars

\* C38: when a drag that sent a movement command ends, onMove('stop') is
\* sent; and while no drag is in progress no event other than the start of
\* the next drag sends a command, so 'stop' stays the last command.
C38_DragEndsWithStop ==
    [][/\ (lastEvent' = "mouseup" /\ active /\ dragSent)
            => (emitted' /\ lastSent' = "stop")
       /\ (~active /\ lastEvent' # "mousedown") => ~emitted']_vars

\* C38 witness: a drag that sent a movement command has just ended
C38_Witness ==
    /\ lastEvent = "mouseup"
    /\ dragSent
    /\ emitted
    /\ lastSent = "stop"
    /\ ~active
    /\ lastDirection = "stop"
    /\ knob = KnobCentre

\* ------------------------------------------------------------------------
\* Claims about the medicine schedule of Index.tsx (checked under SpecSchedule)
\* ------------------------------------------------------------------------
\* C39: within one occurrence of its scheduled minute a medicine is notified
\* at most once and its drawer is opened at most once, whatever the phase of
\* the 30-second interval and however often the list changes.
C39_OncePerScheduledMinute ==
    \A m \in MedicinePool : notified[m] <= 1 /\ opened[m] <= 1

====
